---- MODULE Spec2Model ----
(***************************************************************************)
(* A model of the knowledge-ingestion / retrieval / quiz core of the       *)
(* study-assistant application: the relational schema with its triggers,   *)
(* unique indexes and foreign keys (schema SQL), the browser handlers that *)
(* write to it (TopicUpload.tsx, TopicQuizzes.tsx, quizzes/page.tsx) and   *)
(* the backend workers the handlers call.                                  *)
(*                                                                         *)
(* Tables are sets of row records.  Every browser handler is split at its  *)
(* awaited requests: one action per committed statement.                   *)
(***************************************************************************)
EXTENDS Integers, Sequences, FiniteSets, TLC

(***************************************************************************)
(* Bounds of the model.                                                    *)
(***************************************************************************)
MaxFiles == 2
MaxLifeFiles == 1
MaxDocsPerFile == 2
MaxK == 2
MaxBatch == 2
MaxFaults == 1

Topics == {"t1", "t2"}
FileIds == 1..MaxFiles

\* SQL null, for a uuid parameter
Null == "null"

\* the topic whose summaries and quizzes the tables of the model hold (the first
\* topic created), and the topic_id that the files of topic t carry
PageTopic == 1
TopicKey(t) == IF t = 1 THEN "t1" ELSE IF t = 2 THEN "t2" ELSE Null

\* TopicUpload.tsx: const MAX_BYTES = 50 * 1024 * 1024
MAX_BYTES == 50 * 1024 * 1024

\* file sizes offered to an upload: at the ceiling and just above it
Sizes == {MAX_BYTES, MAX_BYTES + 1}

\* the check constraint of topic_files.vector_status
VectorStatus == {"not_ingested", "ingesting", "ingested", "excluded", "deleted"}

(***************************************************************************)
(* Embeddings.  The schema stores vector(1536); the model uses planar      *)
(* integer vectors of one common norm (5), for which the cosine distance   *)
(* 1 - a.b/(|a||b|) is (25 - a.b)/25.  Distances and similarities are kept *)
(* scaled by 25 so that they stay integers.                                *)
(***************************************************************************)
Embeddings == {<<5, 0>>, <<4, 3>>, <<-3, 4>>}

Dot(a, b) == a[1] * b[1] + a[2] * b[2]

\* the pgvector operator <=> (cosine distance), scaled by 25
CosineDistance(a, b) == 25 - Dot(a, b)

VARIABLES
  topic_files,   \* table topic_files: rows [id, topic_id, include_in_rag, vector_status, deleted_at]
  documents,     \* table documents: rows [id, topic_id, topic_file_id]
  chunks,        \* table chunks: rows [id, document_id, topic_id, embedding, is_active]
  storage,       \* objects of the storage bucket "topic-files" (by file id)
  nextFile,      \* next topic_files id / storage path
  nextChunk,     \* chunks.id bigserial
  ingest,        \* backend ingestion job per file: "none", "accepted", "persisted", "done"
  busy,          \* TopicUpload state: busy
  pc,            \* TopicUpload: the await the running handler is suspended at
  cur,           \* TopicUpload: the running handler's locals [file, next, ids, queue]
  uiFiles,       \* TopicUpload state: files, as id -> cached include_in_rag ("none" when not listed)
  err,           \* TopicUpload state: err (TRUE when an error message is shown)
  faults         \* number of requests that returned an error so far (bounded by MaxFaults)

fileVars == <<topic_files, documents, chunks, storage, nextFile, nextChunk,
              ingest, busy, pc, cur, uiFiles, err, faults>>

\* the quiz tables and the pages and worker that use them (defined below)
VARIABLES
  quizzes,          \* table quizzes: rows [id, status]
  quiz_questions,   \* table quiz_questions: rows [id, quiz_id]
  quiz_options,     \* table quiz_options: rows [id, question_id, is_correct]
  quiz_attempts,    \* table quiz_attempts: rows [id, quiz_id, submitted, score_percent]
  attempt_answers,  \* table attempt_answers: rows [attempt_id, question_id, selected_option_id, is_correct]
  nextQuiz, nextQuestion, nextOption, nextAttempt,   \* fresh uuids
  sqlstate,         \* outcome of the last statement sent to the database
  calls,            \* generate requests sent and not yet answered, per quiz
  gen,              \* generation job per quiz: "idle" or "running"
  generations,      \* number of question sets written so far
  runner,           \* quiz runner page: [pc, quiz, questions, options, answers, attempt]
  summaries,        \* table topic_summaries of one topic: type -> status, "none" before the rows exist
  sumCalls,         \* summary generate requests sent and not yet answered
  poll,             \* pollStatus of the quiz list: [pc, quiz, i, reads, elapsed, last, allErr]
  generating,       \* TopicQuizzes state: generating (a quiz id, 0 for null)
  cards,            \* TopicQuizzes state: quizzes, as id -> status shown ("none" when not listed)
  handlers          \* TopicQuizzes: the running generate/regenerate calls: [pc, quiz, i]

quizVars == <<quizzes, quiz_questions, quiz_options, quiz_attempts, attempt_answers,
              nextQuiz, nextQuestion, nextOption, nextAttempt, sqlstate, calls, gen,
              generations, runner, summaries, sumCalls, poll, generating, cards,
              handlers>>

\* topics and categories, and the browser sessions that write them (defined below)
VARIABLES
  topics,       \* table topics: rows [id, category_id]
  categories,   \* table categories: the ids of its rows
  nextTopic, nextCat,   \* fresh uuids
  sess,         \* per browser session: the handler it is in and the statement it runs
  last_used_at, \* topics.last_used_at per topic: the number of times it was set, modulo 2
  hook          \* the refs of one usePolling instance and the page it runs in

catVars == <<topics, categories, nextTopic, nextCat, sess, last_used_at, hook>>

(***************************************************************************)
(* Row access                                                              *)
(***************************************************************************)
HasFile(f) == \E r \in topic_files : r.id = f
FileRow(f) == CHOOSE r \in topic_files : r.id = f

DocsOfFile(f) == {d \in documents : d.topic_file_id = f}
DocIdsOfFile(f) == {d.id : d \in DocsOfFile(f)}
ChunksOfFileIn(cs, ds, f) ==
  {c \in cs : \E d \in ds : d.id = c.document_id /\ d.topic_file_id = f}
ChunksOfFile(f) == ChunksOfFileIn(chunks, documents, f)

(***************************************************************************)
(* sync_chunks_active_from_file (trigger t_file_sync_chunks): after an     *)
(* update of include_in_rag or vector_status of a topic_files row, every   *)
(* chunk whose document belongs to that file gets                          *)
(*   is_active = (new.include_in_rag and new.vector_status = 'ingested').  *)
(***************************************************************************)
\* the same without include_in_rag
sync_is_active_dropInclude(new) == new.vector_status = "ingested"

sync_is_active(new) == new.include_in_rag /\ new.vector_status = "ingested"

\* a trigger that updates no chunk
sync_chunks_active_from_file_off(cs, ds, new) == cs

sync_chunks_active_from_file(cs, ds, new) ==
  {IF \E d \in ds : d.id = c.document_id /\ d.topic_file_id = new.id
     THEN [c EXCEPT !.is_active = sync_is_active(new)]
     ELSE c : c \in cs}

\* the triggers t_topic_summaries_bump and t_topic_files_bump (after insert or
\* update, for each row) and t_quizzes_bump (after insert, for each row)
\* (t_quizzes_bump after insert or update)
BumpTrigger_quizUpdate(table, op) == op \in {"insert", "update"}

BumpTrigger(table, op) ==
  IF table = "quizzes" THEN op = "insert" ELSE op \in {"insert", "update"}

\* bump_topic_last_used_from_topic, for a statement op on table whose rows belong
\* to the topics ts: update topics set last_used_at = now() where id = new.topic_id
\* (now() is later than the instant stored, so the stored value changes); the
\* statement writes nothing else of topics and categories
bump_topic_last_used_from_topic(table, op, ts) ==
  /\ last_used_at' = [t \in Topics |->
                        IF BumpTrigger(table, op) /\ t \in ts
                          THEN (last_used_at[t] + 1) % 2 ELSE last_used_at[t]]
  /\ UNCHANGED <<topics, categories, nextTopic, nextCat, sess, hook>>

\* the topic of the rows of topic_files with id f (no topic when there is no row)
TopicOfFile(f) == {r.topic_id : r \in {x \in topic_files : x.id = f}}

\* update topic_files set include_in_rag = inc, vector_status = vs [, deleted_at = now()]
\* where id = f (an update that matches no row changes nothing); the trigger runs in
\* the same statement
UpdateFile(f, inc, vs, setDeleted) ==
  IF HasFile(f)
    THEN LET old == FileRow(f)
             new == [old EXCEPT !.include_in_rag = inc, !.vector_status = vs,
                                !.deleted_at = old.deleted_at \/ setDeleted]
         IN /\ topic_files' = (topic_files \ {old}) \cup {new}
            /\ chunks' = sync_chunks_active_from_file(chunks, documents, new)
    ELSE UNCHANGED <<topic_files, chunks>>

(***************************************************************************)
(* match_documents(query_embedding, match_count, p_topic_id, p_only_active)*)
(***************************************************************************)
\* the where clause, over chunks joined with their documents
MatchWhere_noTopic(c, p_topic_id, p_only_active) ==
  /\ \E d \in documents : d.id = c.document_id
  /\ (~p_only_active \/ c.is_active)

MatchWhere(c, p_topic_id, p_only_active) ==
  /\ \E d \in documents : d.id = c.document_id
  /\ (p_topic_id = Null \/ c.topic_id = p_topic_id)
  /\ (~p_only_active \/ c.is_active)

MatchCandidates(p_topic_id, p_only_active) ==
  {c \in chunks : MatchWhere(c, p_topic_id, p_only_active)}

Min(a, b) == IF a < b THEN a ELSE b

\* order by c.embedding <=> query_embedding limit match_count.  The order by has no
\* second key, so rows at equal distance may come in any order: the function's
\* possible results are all the sequences below.
match_documents(query_embedding, match_count, p_topic_id, p_only_active) ==
  LET cand == MatchCandidates(p_topic_id, p_only_active)
      n == Min(match_count, Cardinality(cand))
      dist(c) == CosineDistance(c.embedding, query_embedding)
  IN {r \in [1..n -> cand] :
        /\ \A i, j \in 1..n : i < j => r[i] # r[j] /\ dist(r[i]) <= dist(r[j])
        /\ \A c \in cand : (\A i \in 1..n : r[i] # c) =>
                              \A i \in 1..n : dist(r[i]) <= dist(c)}

\* the columns the function returns for a chunk row
MatchRow(c, query_embedding) ==
  [document_id |-> c.document_id,
   similarity |-> 25 - CosineDistance(c.embedding, query_embedding)]

\* a chunk of file f is returned by some search with p_only_active = true
Retrievable(f) ==
  \E q \in Embeddings, k \in 1..MaxK, t \in Topics \cup {Null} :
    \E r \in match_documents(q, k, t, TRUE) :
      \E i \in DOMAIN r : r[i] \in ChunksOfFile(f)

(***************************************************************************)
(* Initial state: an empty database, the upload page idle.                 *)
(***************************************************************************)
NoCur == [file |-> 0, topic |-> Null, next |-> FALSE, ids |-> {}, queue |-> <<>>]

FileInit ==
  /\ topic_files = {}
  /\ documents = {}
  /\ chunks = {}
  /\ storage = {}
  /\ nextFile = 1
  /\ nextChunk = 1
  /\ ingest = [f \in FileIds |-> "none"]
  /\ busy = FALSE
  /\ pc = "idle"
  /\ cur = NoCur
  /\ uiFiles = [f \in FileIds |-> "none"]
  /\ err = FALSE
  /\ faults = 0

\* refreshFiles: select ... from topic_files where topic_id = ... and deleted_at is null
refreshFiles ==
  [f \in FileIds |->
     IF HasFile(f) /\ ~FileRow(f).deleted_at
       THEN (IF FileRow(f).include_in_rag THEN "on" ELSE "off")
       ELSE "none"]

\* catch + finally of the three handlers: setErr(message), setBusy(false)
Caught == /\ err' = TRUE
          /\ busy' = FALSE
          /\ pc' = "idle"
          /\ cur' = NoCur

Finished == /\ busy' = FALSE
            /\ pc' = "idle"
            /\ cur' = NoCur

(***************************************************************************)
(* handleFiles (TopicUpload.tsx): size validation of the whole list, then  *)
(* per file: storage upload, topic_files insert (include_in_rag = true,    *)
(* vector_status = 'ingesting'), POST /api/rag/ingest, refreshFiles.       *)
(***************************************************************************)
Batches == UNION {[1..n -> Sizes] : n \in 1..MaxBatch}

\* the validation (a test of the first file only)
Oversized_firstOnly(list) == list[1] > MAX_BYTES

\* the validation loop throws on the first file over MAX_BYTES
Oversized(list) == \E i \in DOMAIN list : list[i] > MAX_BYTES

HF_Start(list, t, limit) ==
  /\ pc = "idle" /\ ~busy
  /\ nextFile + Len(list) - 1 <= limit
  /\ IF Oversized(list)
       THEN /\ Caught
       ELSE /\ err' = FALSE
            /\ busy' = TRUE
            /\ pc' = "hf_upload"
            /\ cur' = [NoCur EXCEPT !.topic = t, !.queue = list]
  /\ UNCHANGED <<topic_files, documents, chunks, storage, nextFile, nextChunk,
                 ingest, uiFiles, faults>>
  /\ UNCHANGED quizVars
  /\ UNCHANGED catVars

HF_StorageUpload ==
  /\ pc = "hf_upload"
  /\ storage' = storage \cup {nextFile}
  /\ cur' = [cur EXCEPT !.file = nextFile]
  /\ nextFile' = nextFile + 1
  /\ pc' = "hf_insert"
  /\ UNCHANGED <<topic_files, documents, chunks, nextChunk, ingest, busy,
                 uiFiles, err, faults>>
  /\ UNCHANGED quizVars
  /\ UNCHANGED catVars

HF_InsertRow ==
  /\ pc = "hf_insert"
  /\ topic_files' = topic_files \cup
       {[id |-> cur.file, topic_id |-> cur.topic, include_in_rag |-> TRUE,
         vector_status |-> "ingesting", deleted_at |-> FALSE]}
  /\ uiFiles' = [uiFiles EXCEPT ![cur.file] = "on"]
  /\ pc' = "hf_ingest"
  /\ UNCHANGED <<documents, chunks, storage, nextFile, nextChunk, ingest, busy,
                 cur, err, faults>>
  /\ UNCHANGED quizVars
  /\ bump_topic_last_used_from_topic("topic_files", "insert", {cur.topic})

\* the backend answers the ingest request with success: the job is accepted
HF_IngestAccepted ==
  /\ pc = "hf_ingest"
  /\ ingest' = [ingest EXCEPT ![cur.file] = "accepted"]
  /\ pc' = "hf_refresh"
  /\ UNCHANGED <<topic_files, documents, chunks, storage, nextFile, nextChunk,
                 busy, cur, uiFiles, err, faults>>
  /\ UNCHANGED quizVars
  /\ UNCHANGED catVars

HF_Refresh ==
  /\ pc = "hf_refresh"
  /\ uiFiles' = refreshFiles
  /\ IF Len(cur.queue) > 1
       THEN /\ cur' = [cur EXCEPT !.queue = Tail(cur.queue), !.file = 0]
            /\ pc' = "hf_upload"
            /\ UNCHANGED busy
       ELSE Finished
  /\ UNCHANGED <<topic_files, documents, chunks, storage, nextFile, nextChunk,
                 ingest, err, faults>>
  /\ UNCHANGED quizVars
  /\ UNCHANGED catVars

\* a request of handleFiles returns an error (upload, insert, a response that is not
\* ok, refresh): the exception ends the loop; nothing written so far is undone
HF_Fail ==
  /\ faults < MaxFaults
  /\ faults' = faults + 1
  /\ pc \in {"hf_upload", "hf_insert", "hf_ingest", "hf_refresh"}
  /\ Caught
  /\ UNCHANGED <<topic_files, documents, chunks, storage, nextFile, nextChunk,
                 ingest, uiFiles>>
  /\ UNCHANGED quizVars
  /\ UNCHANGED catVars

(***************************************************************************)
(* toggleInclude(file, next) (TopicUpload.tsx)                             *)
(***************************************************************************)
\* the Checkbox reports the negation of what it shows
Listed(f) == uiFiles[f] # "none"
NextOf(f) == uiFiles[f] = "off"

\* vector_status: next ? "ingested" : "excluded"
ToggleStatus(next, old) == IF next THEN "ingested" ELSE "excluded"

TG_FileUpdate(f) ==
  /\ pc = "idle" /\ ~busy
  /\ Listed(f)
  /\ LET next == NextOf(f)
     IN /\ UpdateFile(f, next,
                      ToggleStatus(next, IF HasFile(f) THEN FileRow(f).vector_status
                                                       ELSE "not_ingested"),
                      FALSE)
        /\ uiFiles' = [uiFiles EXCEPT ![f] = IF next THEN "on" ELSE "off"]
        /\ cur' = [NoCur EXCEPT !.file = f, !.next = next]
  /\ busy' = TRUE
  /\ err' = FALSE
  /\ pc' = "tg_docs"
  /\ UNCHANGED <<documents, storage, nextFile, nextChunk, ingest, faults>>
  /\ UNCHANGED quizVars
  /\ bump_topic_last_used_from_topic("topic_files", "update", TopicOfFile(f))

\* setChunksActiveForFile, first request: select id from documents where topic_file_id = f
TG_SelectDocs ==
  /\ pc = "tg_docs"
  /\ cur' = [cur EXCEPT !.ids = DocIdsOfFile(cur.file)]
  /\ pc' = IF DocIdsOfFile(cur.file) = {} THEN "tg_refresh" ELSE "tg_chunks"
  /\ UNCHANGED <<topic_files, documents, chunks, storage, nextFile, nextChunk,
                 ingest, busy, uiFiles, err, faults>>
  /\ UNCHANGED quizVars
  /\ UNCHANGED catVars

\* setChunksActiveForFile, second request: update chunks set is_active = next
\* where document_id in ids
TG_ChunkUpdate ==
  /\ pc = "tg_chunks"
  /\ chunks' = {IF c.document_id \in cur.ids THEN [c EXCEPT !.is_active = cur.next] ELSE c
                  : c \in chunks}
  /\ pc' = "tg_refresh"
  /\ UNCHANGED <<topic_files, documents, storage, nextFile, nextChunk, ingest,
                 busy, cur, uiFiles, err, faults>>
  /\ UNCHANGED quizVars
  /\ UNCHANGED catVars

TG_Refresh ==
  /\ pc = "tg_refresh"
  /\ uiFiles' = refreshFiles
  /\ Finished
  /\ UNCHANGED <<topic_files, documents, chunks, storage, nextFile, nextChunk,
                 ingest, err, faults>>
  /\ UNCHANGED quizVars
  /\ UNCHANGED catVars

\* a request of toggleInclude after the file update returns an error: the catch block
\* puts the cached include_in_rag back to !next; the file update stays committed
TG_Fail ==
  /\ faults < MaxFaults
  /\ faults' = faults + 1
  /\ pc \in {"tg_docs", "tg_chunks", "tg_refresh"}
  /\ uiFiles' = [uiFiles EXCEPT ![cur.file] = IF cur.next THEN "off" ELSE "on"]
  /\ Caught
  /\ UNCHANGED <<topic_files, documents, chunks, storage, nextFile, nextChunk,
                 ingest>>
  /\ UNCHANGED quizVars
  /\ UNCHANGED catVars

(***************************************************************************)
(* deleteFile(file) (TopicUpload.tsx)                                      *)
(***************************************************************************)
DEL_SelectDocs(f) ==
  /\ pc = "idle" /\ ~busy
  /\ Listed(f)
  /\ busy' = TRUE
  /\ err' = FALSE
  /\ cur' = [NoCur EXCEPT !.file = f, !.ids = DocIdsOfFile(f)]
  /\ pc' = IF DocIdsOfFile(f) = {} THEN "del_storage" ELSE "del_chunks"
  /\ UNCHANGED <<topic_files, documents, chunks, storage, nextFile, nextChunk,
                 ingest, uiFiles, faults>>
  /\ UNCHANGED quizVars
  /\ UNCHANGED catVars

\* delete from chunks where document_id in docIds
DEL_Chunks ==
  /\ pc = "del_chunks"
  /\ chunks' = {c \in chunks : c.document_id \notin cur.ids}
  /\ pc' = "del_documents"
  /\ UNCHANGED <<topic_files, documents, storage, nextFile, nextChunk, ingest,
                 busy, cur, uiFiles, err, faults>>
  /\ UNCHANGED quizVars
  /\ UNCHANGED catVars

\* delete from documents where id in docIds; chunks.document_id is on delete cascade
DEL_Documents ==
  /\ pc = "del_documents"
  /\ documents' = {d \in documents : d.id \notin cur.ids}
  /\ chunks' = {c \in chunks : c.document_id \notin cur.ids}
  /\ pc' = "del_storage"
  /\ UNCHANGED <<topic_files, storage, nextFile, nextChunk, ingest, busy, cur,
                 uiFiles, err, faults>>
  /\ UNCHANGED quizVars
  /\ UNCHANGED catVars

\* storage.remove([file.storage_path]); its result is not looked at
DEL_Storage(ok) ==
  /\ pc = "del_storage"
  /\ storage' = IF ok THEN storage \ {cur.file} ELSE storage
  /\ pc' = "del_file"
  /\ UNCHANGED <<topic_files, documents, chunks, nextFile, nextChunk, ingest,
                 busy, cur, uiFiles, err, faults>>
  /\ UNCHANGED quizVars
  /\ UNCHANGED catVars

\* update topic_files set deleted_at = now(), vector_status = 'deleted',
\* include_in_rag = false where id = f
DEL_FileUpdate ==
  /\ pc = "del_file"
  /\ UpdateFile(cur.file, FALSE, "deleted", TRUE)
  /\ pc' = "del_refresh"
  /\ UNCHANGED <<documents, storage, nextFile, nextChunk, ingest, busy, cur,
                 uiFiles, err, faults>>
  /\ UNCHANGED quizVars
  /\ bump_topic_last_used_from_topic("topic_files", "update", TopicOfFile(cur.file))

DEL_Refresh ==
  /\ pc = "del_refresh"
  /\ uiFiles' = refreshFiles
  /\ Finished
  /\ UNCHANGED <<topic_files, documents, chunks, storage, nextFile, nextChunk,
                 ingest, err, faults>>
  /\ UNCHANGED quizVars
  /\ UNCHANGED catVars

\* a request of deleteFile returns an error: nothing done so far is undone
DEL_Fail ==
  /\ faults < MaxFaults
  /\ faults' = faults + 1
  /\ pc \in {"del_chunks", "del_documents", "del_file", "del_refresh"}
  /\ Caught
  /\ UNCHANGED <<topic_files, documents, chunks, storage, nextFile, nextChunk,
                 ingest, uiFiles>>
  /\ UNCHANGED quizVars
  /\ UNCHANGED catVars

\* the first request of toggleInclude or deleteFile returns an error
FirstRequestFails ==
  /\ faults < MaxFaults
  /\ faults' = faults + 1
  /\ pc = "idle" /\ ~busy
  /\ \E f \in FileIds : Listed(f)
  /\ err' = TRUE
  /\ UNCHANGED <<topic_files, documents, chunks, storage, nextFile, nextChunk,
                 ingest, busy, pc, cur, uiFiles>>
  /\ UNCHANGED quizVars
  /\ UNCHANGED catVars

(***************************************************************************)
(* The ingestion worker behind POST /api/rag/ingest.  It writes the        *)
(* documents and chunks of a file in one transaction, then sets the file's *)
(* vector_status to 'ingested'.  Chunk rows take the schema's column       *)
(* default is_active = true.                                               *)
(***************************************************************************)
\* chunks.is_active boolean not null default true
ChunkDefaultActive == TRUE

IngestPersist(f, nd, e) ==
  /\ ingest[f] = "accepted"
  /\ HasFile(f)
  /\ LET t == FileRow(f).topic_id
     IN /\ documents' = documents \cup
             {[id |-> <<f, i>>, topic_id |-> t, topic_file_id |-> f] : i \in 0..(nd - 1)}
        /\ chunks' = chunks \cup
             {[id |-> nextChunk + i, document_id |-> <<f, i>>, topic_id |-> t,
               embedding |-> e, is_active |-> ChunkDefaultActive] : i \in 0..(nd - 1)}
  /\ nextChunk' = nextChunk + nd
  /\ ingest' = [ingest EXCEPT ![f] = "persisted"]
  /\ UNCHANGED <<topic_files, storage, nextFile, busy, pc, cur, uiFiles, err, faults>>
  /\ UNCHANGED quizVars
  /\ UNCHANGED catVars

\* update topic_files set vector_status = 'ingested' where id = f
IngestComplete(f) ==
  /\ ingest[f] = "persisted"
  /\ HasFile(f)
  /\ UpdateFile(f, FileRow(f).include_in_rag, "ingested", FALSE)
  /\ ingest' = [ingest EXCEPT ![f] = "done"]
  /\ UNCHANGED <<documents, storage, nextFile, nextChunk, busy, pc, cur,
                 uiFiles, err, faults>>
  /\ UNCHANGED quizVars
  /\ bump_topic_last_used_from_topic("topic_files", "update", TopicOfFile(f))

\* the steps of the upload page and of the ingestion worker, for at most limit files
\* uploaded to the topics TT whose chunks get embeddings of EE
FileStep(TT, EE, limit) ==
  \/ \E list \in Batches, t \in TT : HF_Start(list, t, limit)
  \/ HF_StorageUpload
  \/ HF_InsertRow
  \/ HF_IngestAccepted
  \/ HF_Refresh
  \/ \E f \in FileIds : TG_FileUpdate(f)
  \/ TG_SelectDocs
  \/ TG_ChunkUpdate
  \/ TG_Refresh
  \/ \E f \in FileIds, nd \in 1..MaxDocsPerFile, e \in EE : IngestPersist(f, nd, e)
  \/ \E f \in FileIds : IngestComplete(f)

DeleteStep ==
  \/ \E f \in FileIds : DEL_SelectDocs(f)
  \/ DEL_Chunks
  \/ DEL_Documents
  \/ \E ok \in BOOLEAN : DEL_Storage(ok)
  \/ DEL_FileUpdate
  \/ DEL_Refresh

FaultStep ==
  \/ HF_Fail
  \/ TG_Fail
  \/ DEL_Fail
  \/ FirstRequestFails

(***************************************************************************)
(* Quizzes: tables quizzes, quiz_questions, quiz_options, quiz_attempts,   *)
(* attempt_answers with their keys and indexes; the quiz list page         *)
(* (TopicQuizzes.tsx), the quiz runner (quizzes/page.tsx) and the          *)
(* generation worker behind POST /api/rag/quizzes/{id}/generate.           *)
(***************************************************************************)
MaxQuizzes == 1
MaxQuestions == 2
MaxAttempts == 2
MaxGenerations == 2
MaxCalls == 2
MaxWrites == 3
MaxListQuizzes == 2
MaxHandlers == 2

\* ids of the quizzes a run can create (generate() of the other specifications stops
\* at MaxQuizzes, the quiz list page at MaxListQuizzes)
QuizIds == 1..MaxListQuizzes
\* the calls of generate/regenerate of the quiz list page in one run
Handlers == 1..MaxHandlers

\* generated questions carry this many options, one of them correct
OptionsPerQuestion == 2

\* the enum summary_type
SummaryTypes == {"short", "long", "key_concepts"}

\* the enum processing_status
ProcessingStatus == {"pending", "processing", "ready", "failed"}

NoRunner == [pc |-> "closed", quiz |-> 0, questions |-> {}, options |-> {},
             answers |-> <<>>, attempt |-> 0]

\* a call of generate/regenerate that has not started, and one that has returned
IdleHandler == [pc |-> "idle", quiz |-> 0, i |-> 0]
Returned == [pc |-> "returned", quiz |-> 0, i |-> 0]

\* pollStatus is not running
NoPoll == [pc |-> "idle", quiz |-> 0, i |-> 0, reads |-> 0, elapsed |-> 0,
           last |-> "none", allErr |-> TRUE]

QuizInit ==
  /\ quizzes = {}
  /\ quiz_questions = {}
  /\ quiz_options = {}
  /\ quiz_attempts = {}
  /\ attempt_answers = {}
  /\ nextQuiz = 1 /\ nextQuestion = 1 /\ nextOption = 1 /\ nextAttempt = 1
  /\ sqlstate = "ok"
  /\ calls = [q \in QuizIds |-> 0]
  /\ gen = [q \in QuizIds |-> "idle"]
  /\ generations = 0
  /\ runner = NoRunner
  /\ summaries = [ty \in SummaryTypes |-> "none"]
  /\ sumCalls = 0
  /\ poll = NoPoll
  /\ generating = 0
  /\ cards = [q \in QuizIds |-> "none"]
  /\ handlers = [h \in Handlers |-> IdleHandler]

HasQuiz(q) == \E r \in quizzes : r.id = q
QuizRow(q) == CHOOSE r \in quizzes : r.id = q
QuizStatus(q) == QuizRow(q).status
SetQuizStatus(q, st) == (quizzes \ {QuizRow(q)}) \cup {[QuizRow(q) EXCEPT !.status = st]}

QuestionIdsOf(qs, q) == {r.id : r \in {x \in qs : x.quiz_id = q}}
OptionIdsOf(os, qns) == {o.id : o \in {x \in os : x.question_id \in qns}}

(***************************************************************************)
(* The write boundary of quiz_questions and quiz_options: the statements   *)
(* the schema and its row policies admit from any writer.                  *)
(***************************************************************************)
\* unique index uq_correct_option_per_question on quiz_options(question_id) where
\* is_correct: the table os, with row o added or changed, keeps at most one correct
\* option per question
\* (without the index every row is admitted)
UniqueCorrectOk_none(os, o) == TRUE

UniqueCorrectOk(os, o) ==
  ~o.is_correct \/ ~\E x \in os : x.id # o.id /\ x.question_id = o.question_id /\ x.is_correct

\* insert into quiz_questions (quiz_id) values (q)
InsertQuestion(q) ==
  /\ nextQuestion <= MaxWrites
  /\ IF HasQuiz(q)
       THEN /\ quiz_questions' = quiz_questions \cup {[id |-> nextQuestion, quiz_id |-> q]}
            /\ nextQuestion' = nextQuestion + 1
            /\ sqlstate' = "ok"
       ELSE /\ sqlstate' = "foreign_key_violation"
            /\ UNCHANGED <<quiz_questions, nextQuestion>>
  /\ UNCHANGED <<quizzes, quiz_options, quiz_attempts, attempt_answers, nextQuiz,
                 nextOption, nextAttempt, calls, gen, generations, runner,
                 summaries, sumCalls>>
  /\ UNCHANGED <<poll, generating, cards, handlers>>
  /\ UNCHANGED fileVars
  /\ UNCHANGED catVars

\* insert into quiz_options (question_id, is_correct) values (qn, correct)
InsertOption(qn, correct) ==
  /\ nextOption <= MaxWrites
  /\ LET o == [id |-> nextOption, question_id |-> qn, is_correct |-> correct]
     IN IF ~\E r \in quiz_questions : r.id = qn
          THEN /\ sqlstate' = "foreign_key_violation"
               /\ UNCHANGED <<quiz_options, nextOption>>
          ELSE IF ~UniqueCorrectOk(quiz_options, o)
                 THEN /\ sqlstate' = "unique_violation"
                      /\ UNCHANGED <<quiz_options, nextOption>>
                 ELSE /\ quiz_options' = quiz_options \cup {o}
                      /\ nextOption' = nextOption + 1
                      /\ sqlstate' = "ok"
  /\ UNCHANGED <<quizzes, quiz_questions, quiz_attempts, attempt_answers, nextQuiz,
                 nextQuestion, nextAttempt, calls, gen, generations, runner,
                 summaries, sumCalls>>
  /\ UNCHANGED <<poll, generating, cards, handlers>>
  /\ UNCHANGED fileVars
  /\ UNCHANGED catVars

\* update quiz_options set is_correct = correct where id = o.id
UpdateOption(o, correct) ==
  /\ o \in quiz_options
  /\ LET new == [o EXCEPT !.is_correct = correct]
     IN IF ~UniqueCorrectOk(quiz_options, new)
          THEN /\ sqlstate' = "unique_violation"
               /\ UNCHANGED quiz_options
          ELSE /\ quiz_options' = (quiz_options \ {o}) \cup {new}
               /\ sqlstate' = "ok"
  /\ UNCHANGED <<quizzes, quiz_questions, quiz_attempts, attempt_answers, nextQuiz,
                 nextQuestion, nextOption, nextAttempt, calls, gen, generations, runner,
                 summaries, sumCalls>>
  /\ UNCHANGED <<poll, generating, cards, handlers>>
  /\ UNCHANGED fileVars
  /\ UNCHANGED catVars

(***************************************************************************)
(* delete_quiz_content(p_quiz_id): four deletes in one function call.      *)
(***************************************************************************)
\* delete from attempt_answers using quiz_questions where question_id = qq.id and
\* qq.quiz_id = p_quiz_id
DQC_Answers(aa, qs, q) == {a \in aa : a.question_id \notin QuestionIdsOf(qs, q)}

\* (a function without its second delete)
DQC_Attempts_skipped(at, q) == at

\* delete from quiz_attempts where quiz_id = p_quiz_id
DQC_Attempts(at, q) == {a \in at : a.quiz_id # q}

\* attempt_answers.attempt_id references quiz_attempts on delete cascade
CascadeAttempts(aa, at) == {a \in aa : \E t \in at : t.id = a.attempt_id}

\* delete from quiz_options using quiz_questions where question_id = qq2.id and
\* qq2.quiz_id = p_quiz_id
DQC_Options(os, qs, q) == {o \in os : o.question_id \notin QuestionIdsOf(qs, q)}

\* delete from quiz_questions where quiz_id = p_quiz_id
DQC_Questions(qs, q) == {x \in qs : x.quiz_id # q}

\* attempt_answers.selected_option_id references quiz_options on delete restrict:
\* deleting the options of quiz q is refused while an answer selects one of them
RestrictBlocks(aa, os, qs, q) ==
  \E a \in aa : a.selected_option_id \in OptionIdsOf(os, QuestionIdsOf(qs, q))

\* the tables after delete_quiz_content(q), as <<answers, attempts, options, questions>>;
\* the function is one statement of the caller: an error in it undoes all of it
delete_quiz_content(q) ==
  LET aa1 == DQC_Answers(attempt_answers, quiz_questions, q)
      at2 == DQC_Attempts(quiz_attempts, q)
      aa2 == CascadeAttempts(aa1, at2)
  IN IF RestrictBlocks(aa2, quiz_options, quiz_questions, q)
       THEN [ok |-> FALSE, answers |-> attempt_answers, attempts |-> quiz_attempts,
             options |-> quiz_options, questions |-> quiz_questions]
       ELSE [ok |-> TRUE, answers |-> aa2, attempts |-> at2,
             options |-> DQC_Options(quiz_options, quiz_questions, q),
             questions |-> DQC_Questions(quiz_questions, q)]

\* select delete_quiz_content(q), called on its own; the call is one statement, so
\* an error raised in it (a refused delete, or with ok = FALSE the cancellation of
\* the statement between two of its deletes) undoes the deletes already made
RPC_delete_quiz_content(q, ok) ==
  /\ HasQuiz(q)
  /\ quiz_questions # {}
  /\ LET d == delete_quiz_content(q)
     IN IF ok
          THEN /\ attempt_answers' = d.answers
               /\ quiz_attempts' = d.attempts
               /\ quiz_options' = d.options
               /\ quiz_questions' = d.questions
               /\ sqlstate' = IF d.ok THEN "ok" ELSE "foreign_key_violation"
          ELSE /\ sqlstate' = "query_canceled"
               /\ UNCHANGED <<attempt_answers, quiz_attempts, quiz_options,
                              quiz_questions>>
  /\ UNCHANGED <<quizzes, nextQuiz, nextQuestion, nextOption, nextAttempt, calls, gen,
                 generations, runner, summaries, sumCalls>>
  /\ UNCHANGED <<poll, generating, cards, handlers>>
  /\ UNCHANGED fileVars
  /\ UNCHANGED catVars


(***************************************************************************)
(* The quiz list (TopicQuizzes.tsx): generate, regenerate, deleteQuiz.     *)
(***************************************************************************)
\* the status generate() writes into the new quizzes row
\* (a row written as ready would skip the job)
NewQuizStatus_ready == "ready"

NewQuizStatus == "pending"

\* generate(): insert into quizzes (..., status) values (..., 'pending')
generate ==
  /\ nextQuiz <= MaxQuizzes
  /\ quizzes' = quizzes \cup {[id |-> nextQuiz, status |-> NewQuizStatus]}
  /\ nextQuiz' = nextQuiz + 1
  /\ sqlstate' = "ok"
  /\ UNCHANGED <<quiz_questions, quiz_options, quiz_attempts, attempt_answers,
                 nextQuestion, nextOption, nextAttempt, calls, gen, generations, runner,
                 summaries, sumCalls>>
  /\ UNCHANGED <<poll, generating, cards, handlers>>
  /\ UNCHANGED fileVars
  /\ bump_topic_last_used_from_topic("quizzes", "insert", {TopicKey(PageTopic)})

\* callBackendGenerate(quizId): POST /api/rag/quizzes/{quizId}/generate, sent by
\* generate() after its insert and by regenerate(q) for any listed quiz, whatever
\* its status
callBackendGenerate(q) ==
  /\ HasQuiz(q)
  /\ calls[q] < MaxCalls
  /\ calls' = [calls EXCEPT ![q] = @ + 1]
  /\ UNCHANGED <<quizzes, quiz_questions, quiz_options, quiz_attempts, attempt_answers,
                 nextQuiz, nextQuestion, nextOption, nextAttempt, sqlstate, gen,
                 generations, runner, summaries, sumCalls>>
  /\ UNCHANGED <<poll, generating, cards, handlers>>
  /\ UNCHANGED fileVars
  /\ UNCHANGED catVars

\* the rows that go with quiz q when its quizzes row is deleted (on delete cascade
\* through quiz_questions, quiz_options, quiz_attempts, attempt_answers)
CascadeQuiz(q) ==
  LET qns == QuestionIdsOf(quiz_questions, q)
      ats == {a.id : a \in {x \in quiz_attempts : x.quiz_id = q}}
  IN [questions |-> {x \in quiz_questions : x.quiz_id # q},
      options |-> {o \in quiz_options : o.question_id \notin qns},
      attempts |-> {a \in quiz_attempts : a.quiz_id # q},
      answers |-> {a \in attempt_answers :
                     a.question_id \notin qns /\ a.attempt_id \notin ats}]

\* deleteQuiz(q): delete from quizzes where id = q.  The checks of the restrict key
\* of attempt_answers.selected_option_id are triggers queued by the delete of the
\* options; they run after the cascades queued before them, which have deleted the
\* answers of the quiz's questions and attempts: the statement is refused only for
\* an answer that the cascade leaves
deleteQuiz(q) ==
  /\ HasQuiz(q)
  /\ IF RestrictBlocks(CascadeQuiz(q).answers, quiz_options, quiz_questions, q)
       THEN /\ sqlstate' = "foreign_key_violation"
            /\ UNCHANGED <<quizzes, quiz_questions, quiz_options, quiz_attempts,
                           attempt_answers>>
       ELSE /\ quizzes' = quizzes \ {QuizRow(q)}
            /\ quiz_questions' = CascadeQuiz(q).questions
            /\ quiz_options' = CascadeQuiz(q).options
            /\ quiz_attempts' = CascadeQuiz(q).attempts
            /\ attempt_answers' = CascadeQuiz(q).answers
            /\ sqlstate' = "ok"
  /\ UNCHANGED <<nextQuiz, nextQuestion, nextOption, nextAttempt, calls, gen,
                 generations, runner, summaries, sumCalls>>
  /\ UNCHANGED <<poll, generating, cards, handlers>>
  /\ UNCHANGED fileVars
  /\ bump_topic_last_used_from_topic("quizzes", "delete", {TopicKey(PageTopic)})

(***************************************************************************)
(* The generation worker behind POST /api/rag/quizzes/{id}/generate.       *)
(***************************************************************************)
\* the statuses in which a generate request starts a job
Accepts == {"pending", "ready", "failed"}

\* the worker answers a request for quiz q: it starts a job and sets the status to
\* processing, or refuses the request while a job of q is running
GenAccept(q) ==
  /\ calls[q] > 0
  /\ calls' = [calls EXCEPT ![q] = @ - 1]
  /\ IF HasQuiz(q) /\ gen[q] = "idle" /\ QuizStatus(q) \in Accepts
       THEN /\ quizzes' = SetQuizStatus(q, "processing")
            /\ gen' = [gen EXCEPT ![q] = "running"]
       ELSE UNCHANGED <<quizzes, gen>>
  /\ UNCHANGED <<quiz_questions, quiz_options, quiz_attempts, attempt_answers,
                 nextQuiz, nextQuestion, nextOption, nextAttempt, sqlstate,
                 generations, runner, summaries, sumCalls>>
  /\ UNCHANGED <<poll, generating, cards, handlers>>
  /\ UNCHANGED fileVars
  /\ bump_topic_last_used_from_topic("quizzes", "update", IF quizzes' # quizzes THEN {TopicKey(PageTopic)} ELSE {})

\* n new questions of quiz q, each with OptionsPerQuestion options, the first correct
NewQuestions(q, n) == {[id |-> nextQuestion + i, quiz_id |-> q] : i \in 0..(n - 1)}
NewOptions(n) ==
  {[id |-> nextOption + i * OptionsPerQuestion + j, question_id |-> nextQuestion + i,
    is_correct |-> (j = 0)] : i \in 0..(n - 1), j \in 0..(OptionsPerQuestion - 1)}

\* the job of quiz q persists its result in one transaction: delete_quiz_content(q),
\* insert the n new questions and their options, status ready.  An error in the
\* transaction leaves the tables as they were and the status failed.
GenWrite(q, n) ==
  /\ gen[q] = "running"
  /\ generations < MaxGenerations
  /\ gen' = [gen EXCEPT ![q] = "idle"]
  /\ LET d == delete_quiz_content(q)
     IN IF HasQuiz(q) /\ d.ok
          THEN /\ attempt_answers' = d.answers
               /\ quiz_attempts' = d.attempts
               /\ quiz_options' = d.options \cup NewOptions(n)
               /\ quiz_questions' = d.questions \cup NewQuestions(q, n)
               /\ nextQuestion' = nextQuestion + n
               /\ nextOption' = nextOption + n * OptionsPerQuestion
               /\ generations' = generations + 1
               /\ quizzes' = SetQuizStatus(q, "ready")
          ELSE /\ quizzes' = IF HasQuiz(q) THEN SetQuizStatus(q, "failed") ELSE quizzes
               /\ UNCHANGED <<attempt_answers, quiz_attempts, quiz_options,
                              quiz_questions, nextQuestion, nextOption, generations>>
  /\ UNCHANGED <<nextQuiz, nextAttempt, sqlstate, calls, runner, summaries, sumCalls>>
  /\ UNCHANGED <<poll, generating, cards, handlers>>
  /\ UNCHANGED fileVars
  /\ bump_topic_last_used_from_topic("quizzes", "update", IF HasQuiz(q) THEN {TopicKey(PageTopic)} ELSE {})

\* retrieval or synthesis raises: status failed, no question or option row written
GenFail(q) ==
  /\ gen[q] = "running"
  /\ gen' = [gen EXCEPT ![q] = "idle"]
  /\ quizzes' = IF HasQuiz(q) THEN SetQuizStatus(q, "failed") ELSE quizzes
  /\ UNCHANGED <<quiz_questions, quiz_options, quiz_attempts, attempt_answers,
                 nextQuiz, nextQuestion, nextOption, nextAttempt, sqlstate, calls,
                 generations, runner, summaries, sumCalls>>
  /\ UNCHANGED <<poll, generating, cards, handlers>>
  /\ UNCHANGED fileVars
  /\ bump_topic_last_used_from_topic("quizzes", "update", IF HasQuiz(q) THEN {TopicKey(PageTopic)} ELSE {})

(***************************************************************************)
(* pollStatus(quizId) (TopicQuizzes.tsx), which generate and regenerate    *)
(* call when the POST .../generate has returned: up to MAX_POLLS reads of  *)
(* the quiz's status, POLL_INTERVAL_MS apart.                              *)
(***************************************************************************)
\* for (let i = 0; i < 20; i++)
MAX_POLLS == 20
\* setTimeout(r, 1500)
POLL_INTERVAL_MS == 1500

\* the loop test (a loop with no bound)
PollAgain_forever(i) == TRUE

PollAgain(i) == i < MAX_POLLS

\* if (s === "ready" || s === "failed") break
PollBreaks(st) == st \in {"ready", "failed"}

PollUnchanged ==
  /\ UNCHANGED <<quizzes, quiz_questions, quiz_options, quiz_attempts, attempt_answers,
                 nextQuiz, nextQuestion, nextOption, nextAttempt, sqlstate, calls, gen,
                 generations, runner, summaries, sumCalls, generating, cards,
                 handlers>>
  /\ UNCHANGED fileVars
  /\ UNCHANGED catVars

PS_Start(q) ==
  /\ poll.pc = "idle"
  /\ HasQuiz(q)
  /\ poll' = [NoPoll EXCEPT !.pc = "read", !.quiz = q]
  /\ PollUnchanged

\* select status from quizzes where id = quizId, .single(): an error when the request
\* fails (ok = FALSE) or when the row is gone; else the status read ends the loop
\* or not
PS_Read(ok) ==
  /\ poll.pc = "read"
  /\ LET error == ~ok \/ ~HasQuiz(poll.quiz)
         st == IF error THEN "error" ELSE QuizStatus(poll.quiz)
     IN poll' = [poll EXCEPT !.reads = @ + 1, !.last = st, !.allErr = @ /\ error,
                             !.pc = IF ~error /\ PollBreaks(st) THEN "end" ELSE "wait"]
  /\ PollUnchanged

\* await new Promise((r) => setTimeout(r, 1500)); i++; the loop test
PS_Wait ==
  /\ poll.pc = "wait"
  /\ poll' = [poll EXCEPT !.i = @ + 1, !.elapsed = @ + POLL_INTERVAL_MS,
                          !.pc = IF PollAgain(poll.i + 1) THEN "read" ELSE "end"]
  /\ PollUnchanged

\* setGenerating(null); await refresh()
PS_Finish ==
  /\ poll.pc = "end"
  /\ poll' = NoPoll
  /\ PollUnchanged

(***************************************************************************)
(* The quiz list page with its state (TopicQuizzes.tsx): generating, the   *)
(* cards, and the calls of generate and regenerate that are suspended at   *)
(* an await.  The dialog shown while generating is not null is modal, and  *)
(* it disables the Generate button: a new call starts only while           *)
(* generating is null.                                                     *)
(***************************************************************************)
ListUnchanged ==
  /\ UNCHANGED <<quiz_questions, quiz_options, quiz_attempts, attempt_answers,
                 nextQuestion, nextOption, nextAttempt, gen, generations, runner,
                 summaries, sumCalls, poll>>
  /\ UNCHANGED fileVars

\* the calls of a run are numbered in the order of the clicks
FreeHandler(h) ==
  /\ handlers[h].pc = "idle"
  /\ \A y \in 1..(h - 1) : handlers[y].pc # "idle"

\* the calls whose POST .../generate for quiz q has not returned
InPost(q) == {h \in Handlers : handlers[h].pc = "post" /\ handlers[h].quiz = q}

\* what refresh() puts on the cards: the status of each row of quizzes
StatusShown(rows) ==
  [q \in QuizIds |-> IF \E r \in rows : r.id = q
                       THEN (CHOOSE r \in rows : r.id = q).status ELSE "none"]

\* generate(): insert the row (status pending), setGenerating(quizId), send the POST
LG_Generate(h) ==
  /\ FreeHandler(h)
  /\ generating = 0
  /\ nextQuiz <= MaxListQuizzes
  /\ quizzes' = quizzes \cup {[id |-> nextQuiz, status |-> NewQuizStatus]}
  /\ nextQuiz' = nextQuiz + 1
  /\ sqlstate' = "ok"
  /\ generating' = nextQuiz
  /\ calls' = [calls EXCEPT ![nextQuiz] = @ + 1]
  /\ handlers' = [handlers EXCEPT ![h] = [pc |-> "post", quiz |-> nextQuiz, i |-> 0]]
  /\ UNCHANGED cards
  /\ ListUnchanged
  /\ bump_topic_last_used_from_topic("quizzes", "insert", {TopicKey(PageTopic)})

\* regenerate(q), from the menu of a card: setGenerating(q.id), send the POST
LG_Regenerate(h, q) ==
  /\ FreeHandler(h)
  /\ generating = 0
  /\ cards[q] # "none"
  /\ calls[q] < MaxCalls
  /\ generating' = q
  /\ calls' = [calls EXCEPT ![q] = @ + 1]
  /\ handlers' = [handlers EXCEPT ![h] = [pc |-> "post", quiz |-> q, i |-> 0]]
  /\ UNCHANGED <<quizzes, nextQuiz, sqlstate, cards>>
  /\ ListUnchanged
  /\ UNCHANGED catVars

\* the POST of call h returns (the worker has answered one more request of the quiz
\* than there are calls left waiting): pollStatus starts, or with !res.ok
\* callBackendGenerate throws and the catch runs setGenerating(null)
LG_Response(h, ok) ==
  /\ handlers[h].pc = "post"
  /\ calls[handlers[h].quiz] < Cardinality(InPost(handlers[h].quiz))
  /\ IF ok
       THEN /\ handlers' = [handlers EXCEPT ![h].pc = "poll"]
            /\ UNCHANGED generating
       ELSE /\ handlers' = [handlers EXCEPT ![h] = Returned]
            /\ generating' = 0
  /\ UNCHANGED <<quizzes, nextQuiz, sqlstate, calls, cards>>
  /\ ListUnchanged
  /\ UNCHANGED catVars

\* one pass of the loop of pollStatus in call h: the read of the status, the break
\* on ready or failed, else the wait, i++ and the loop test
LG_Poll(h, ok) ==
  /\ handlers[h].pc = "poll"
  /\ LET q == handlers[h].quiz
         error == ~ok \/ ~HasQuiz(q)
         break == IF error THEN FALSE ELSE PollBreaks(QuizStatus(q))
     IN handlers' = [handlers EXCEPT ![h] =
          IF break THEN [@ EXCEPT !.pc = "end"]
          ELSE [@ EXCEPT !.i = @ + 1,
                         !.pc = IF PollAgain(handlers[h].i + 1) THEN "poll" ELSE "end"]]
  /\ UNCHANGED <<quizzes, nextQuiz, sqlstate, calls, generating, cards>>
  /\ ListUnchanged
  /\ UNCHANGED catVars

\* (a loop that clears the indicator only when it names the quiz of the loop)
LG_End_ownQuiz(h) ==
  /\ handlers[h].pc = "end"
  /\ generating' = IF generating = handlers[h].quiz THEN 0 ELSE generating
  /\ handlers' = [handlers EXCEPT ![h].pc = "refresh"]
  /\ UNCHANGED <<quizzes, nextQuiz, sqlstate, calls, cards>>
  /\ ListUnchanged
  /\ UNCHANGED catVars

\* after the loop: setGenerating(null); refresh() is called
LG_End(h) ==
  /\ handlers[h].pc = "end"
  /\ generating' = 0
  /\ handlers' = [handlers EXCEPT ![h].pc = "refresh"]
  /\ UNCHANGED <<quizzes, nextQuiz, sqlstate, calls, cards>>
  /\ ListUnchanged
  /\ UNCHANGED catVars

\* refresh(): the select of the quizzes of the topic and setQuizzes(cards), at the
\* end of call h, or from the effect that runs on mount and on a new topic (h = 0)
refresh(h) ==
  /\ h # 0 => handlers[h].pc = "refresh"
  /\ cards' = StatusShown(quizzes)
  /\ handlers' = IF h = 0 THEN handlers ELSE [handlers EXCEPT ![h] = Returned]
  /\ UNCHANGED <<quizzes, nextQuiz, sqlstate, calls, generating>>
  /\ ListUnchanged
  /\ UNCHANGED catVars

\* the Hide button of the dialog (a button that cancels the job of the quiz)
Hide_cancelsJob ==
  /\ generating # 0
  /\ generating' = 0
  /\ quizzes' = IF HasQuiz(generating) THEN SetQuizStatus(generating, "failed") ELSE quizzes
  /\ UNCHANGED <<nextQuiz, sqlstate, calls, cards, handlers>>
  /\ ListUnchanged
  /\ UNCHANGED catVars

\* the Hide button of the dialog: onClick={() => setGenerating(null)}
Hide ==
  /\ generating # 0
  /\ generating' = 0
  /\ UNCHANGED <<quizzes, nextQuiz, sqlstate, calls, cards, handlers>>
  /\ ListUnchanged
  /\ UNCHANGED catVars

(***************************************************************************)
(* The quiz runner (quizzes/page.tsx): load, submit.                       *)
(***************************************************************************)
\* answers[qq.id] ?? null: no option chosen for the question
NoChoice == 0

\* load(): the quiz must be ready and have questions; the page keeps the questions
\* and options it read
RN_Load(q) ==
  /\ runner.pc = "closed"
  /\ HasQuiz(q)
  /\ QuizStatus(q) = "ready"
  /\ QuestionIdsOf(quiz_questions, q) # {}
  /\ runner' = [NoRunner EXCEPT !.pc = "open", !.quiz = q,
                  !.questions = QuestionIdsOf(quiz_questions, q),
                  !.options = {o \in quiz_options :
                                 o.question_id \in QuestionIdsOf(quiz_questions, q)}]
  /\ UNCHANGED <<quizzes, quiz_questions, quiz_options, quiz_attempts, attempt_answers,
                 nextQuiz, nextQuestion, nextOption, nextAttempt, sqlstate, calls, gen,
                 generations, summaries, sumCalls>>
  /\ UNCHANGED <<poll, generating, cards, handlers>>
  /\ UNCHANGED fileVars
  /\ UNCHANGED catVars

\* what the user can have chosen when they press Submit: per question one of its
\* choices or none
ChoicesOf(qn) == {o.id : o \in {x \in runner.options : x.question_id = qn}}
AnswerSheets ==
  {a \in [runner.questions -> {o.id : o \in runner.options} \cup {NoChoice}] :
     \A qn \in runner.questions : a[qn] \in ChoicesOf(qn) \cup {NoChoice}}

\* submit(), first request: insert into quiz_attempts (quiz_id, user_id)
RN_InsertAttempt(sheet) ==
  /\ runner.pc = "open"
  /\ nextAttempt <= MaxAttempts
  /\ IF HasQuiz(runner.quiz)
       THEN /\ quiz_attempts' = quiz_attempts \cup
                 {[id |-> nextAttempt, quiz_id |-> runner.quiz, submitted |-> FALSE,
                   score_percent |-> <<>>]}
            /\ nextAttempt' = nextAttempt + 1
            /\ runner' = [runner EXCEPT !.pc = "answers", !.answers = sheet,
                                        !.attempt = nextAttempt]
            /\ sqlstate' = "ok"
       ELSE /\ sqlstate' = "foreign_key_violation"
            /\ runner' = NoRunner
            /\ UNCHANGED <<quiz_attempts, nextAttempt>>
  /\ UNCHANGED <<quizzes, quiz_questions, quiz_options, attempt_answers, nextQuiz,
                 nextQuestion, nextOption, calls, gen, generations, summaries, sumCalls>>
  /\ UNCHANGED <<poll, generating, cards, handlers>>
  /\ UNCHANGED fileVars
  /\ UNCHANGED catVars

\* qq.choices.find((c) => c.isCorrect)?.id || ""
correctChoiceId(qn) ==
  LET cs == {o \in runner.options : o.question_id = qn /\ o.is_correct}
  IN IF cs = {} THEN <<>> ELSE <<(CHOOSE o \in cs : TRUE).id>>

\* d.yourChoiceId === d.correctChoiceId
ChoseCorrect(qn) == <<runner.answers[qn]>> = correctChoiceId(qn)

answerRows ==
  {[attempt_id |-> runner.attempt, question_id |-> qn,
    selected_option_id |-> runner.answers[qn],
    is_correct |-> runner.answers[qn] # NoChoice /\ ChoseCorrect(qn)] : qn \in runner.questions}

\* table attempt_answers: the not-null columns and the three foreign keys
\* (the not-null columns alone)
AnswerRowsOk_notNullOnly(rows) == \A r \in rows : r.selected_option_id # NoChoice

\* (a selected_option_id that may be null)
AnswerRowsOk_nullable(rows) ==
  \A r \in rows :
    /\ \E a \in quiz_attempts : a.id = r.attempt_id
    /\ \E x \in quiz_questions : x.id = r.question_id
    /\ r.selected_option_id # NoChoice => \E o \in quiz_options : o.id = r.selected_option_id

AnswerRowsOk(rows) ==
  \A r \in rows :
    /\ r.selected_option_id # NoChoice
    /\ \E a \in quiz_attempts : a.id = r.attempt_id
    /\ \E x \in quiz_questions : x.id = r.question_id
    /\ \E o \in quiz_options : o.id = r.selected_option_id

\* submit(), second request: insert into attempt_answers the rows of all questions
RN_InsertAnswers ==
  /\ runner.pc = "answers"
  /\ IF AnswerRowsOk(answerRows)
       THEN /\ attempt_answers' = attempt_answers \cup answerRows
            /\ runner' = [runner EXCEPT !.pc = "score"]
            /\ sqlstate' = "ok"
       ELSE /\ sqlstate' = IF \E r \in answerRows : r.selected_option_id = NoChoice
                              THEN "not_null_violation" ELSE "foreign_key_violation"
            /\ runner' = NoRunner
            /\ UNCHANGED attempt_answers
  /\ UNCHANGED <<quizzes, quiz_questions, quiz_options, quiz_attempts, nextQuiz,
                 nextQuestion, nextOption, nextAttempt, calls, gen, generations,
                 summaries, sumCalls>>
  /\ UNCHANGED <<poll, generating, cards, handlers>>
  /\ UNCHANGED fileVars
  /\ UNCHANGED catVars

\* Math.round((correct / total) * 100): the nearest integer, a half rounded up.  The
\* double arithmetic of the expression gives the integer of the exact quotient for
\* every total below 40 (the first difference is 23 of 40: 57 for 57.5); a quiz has
\* at most 20 questions (quizzes.length).
Score_truncated(correct, total) == (100 * correct) \div total

Score(correct, total) == (200 * correct + total) \div (2 * total)

\* the filter of the update: .eq("id", attemptId)
\* (every attempt of the quiz instead)
UpdateAttemptWhere_quiz(a) == a.quiz_id = runner.quiz

UpdateAttemptWhere(a) == a.id = runner.attempt

\* submit(), third request: update quiz_attempts set submitted_at, score_percent
\* where id = attemptId
RN_UpdateAttempt ==
  /\ runner.pc = "score"
  /\ LET correct == Cardinality({qn \in runner.questions : ChoseCorrect(qn)})
         score == Score(correct, Cardinality(runner.questions))
     IN quiz_attempts' =
          {IF UpdateAttemptWhere(a)
             THEN [a EXCEPT !.submitted = TRUE, !.score_percent = <<score>>]
             ELSE a : a \in quiz_attempts}
  /\ runner' = NoRunner
  /\ sqlstate' = "ok"
  /\ UNCHANGED <<quizzes, quiz_questions, quiz_options, attempt_answers, nextQuiz,
                 nextQuestion, nextOption, nextAttempt, calls, gen, generations,
                 summaries, sumCalls>>
  /\ UNCHANGED <<poll, generating, cards, handlers>>
  /\ UNCHANGED fileVars
  /\ UNCHANGED catVars

(***************************************************************************)
(* Summaries: CreateTopicDialog.tsx inserts the three rows, TopicSummaries *)
(* requests their generation, the worker behind                            *)
(* POST /api/rag/summaries/generate writes them.                           *)
(***************************************************************************)
\* the status handleCreate writes into the new topic_summaries rows
NewSummaryStatus == "pending"

\* handleCreate: insert the three summaries of the new topic
handleCreate ==
  /\ \A ty \in SummaryTypes : summaries[ty] = "none"
  /\ summaries' = [ty \in SummaryTypes |-> NewSummaryStatus]
  /\ UNCHANGED <<quizzes, quiz_questions, quiz_options, quiz_attempts, attempt_answers,
                 nextQuiz, nextQuestion, nextOption, nextAttempt, sqlstate, calls, gen,
                 generations, runner, sumCalls>>
  /\ UNCHANGED <<poll, generating, cards, handlers>>
  /\ UNCHANGED fileVars
  /\ bump_topic_last_used_from_topic("topic_summaries", "insert", {TopicKey(PageTopic)})

\* handleGenerate: POST /api/rag/summaries/generate for the topic
handleGenerate ==
  /\ \A ty \in SummaryTypes : summaries[ty] # "none"
  /\ sumCalls < MaxCalls
  /\ sumCalls' = sumCalls + 1
  /\ UNCHANGED <<quizzes, quiz_questions, quiz_options, quiz_attempts, attempt_answers,
                 nextQuiz, nextQuestion, nextOption, nextAttempt, sqlstate, calls, gen,
                 generations, runner, summaries>>
  /\ UNCHANGED <<poll, generating, cards, handlers>>
  /\ UNCHANGED fileVars
  /\ UNCHANGED catVars

\* the worker answers a request: every summary of the topic that is not being
\* written enters processing
SumAccept ==
  /\ sumCalls > 0
  /\ sumCalls' = sumCalls - 1
  /\ summaries' = [ty \in SummaryTypes |->
                     IF summaries[ty] \in Accepts THEN "processing" ELSE summaries[ty]]
  /\ UNCHANGED <<quizzes, quiz_questions, quiz_options, quiz_attempts, attempt_answers,
                 nextQuiz, nextQuestion, nextOption, nextAttempt, sqlstate, calls, gen,
                 generations, runner>>
  /\ UNCHANGED <<poll, generating, cards, handlers>>
  /\ UNCHANGED fileVars
  /\ bump_topic_last_used_from_topic("topic_summaries", "update",
       IF \E ty \in SummaryTypes : summaries[ty] \in Accepts THEN {TopicKey(PageTopic)} ELSE {})

\* the worker stores the text of one summary (ready) or gives up on it (failed)
SumFinish(ty, st) ==
  /\ summaries[ty] = "processing"
  /\ summaries' = [summaries EXCEPT ![ty] = st]
  /\ UNCHANGED <<quizzes, quiz_questions, quiz_options, quiz_attempts, attempt_answers,
                 nextQuiz, nextQuestion, nextOption, nextAttempt, sqlstate, calls, gen,
                 generations, runner, sumCalls>>
  /\ UNCHANGED <<poll, generating, cards, handlers>>
  /\ UNCHANGED fileVars
  /\ bump_topic_last_used_from_topic("topic_summaries", "update", {TopicKey(PageTopic)})

(***************************************************************************)
(* SpecWrite: the write boundary of questions and options.                 *)
(* SpecQuiz: generation, regeneration, attempts and content deletion of    *)
(* quizzes.  SpecStatus: the status of quizzes and summaries.              *)
(***************************************************************************)
WriteNext ==
  \/ generate
  \/ \E q \in QuizIds : InsertQuestion(q)
  \/ \E qn \in 1..MaxWrites, correct \in BOOLEAN : InsertOption(qn, correct)
  \/ \E o \in quiz_options, correct \in BOOLEAN : UpdateOption(o, correct)

QuizNext ==
  \/ generate
  \/ \E q \in QuizIds : callBackendGenerate(q)
  \/ \E q \in QuizIds : deleteQuiz(q)
  \/ \E q \in QuizIds, ok \in BOOLEAN : RPC_delete_quiz_content(q, ok)
  \/ \E q \in QuizIds : GenAccept(q)
  \/ \E q \in QuizIds, n \in 1..MaxQuestions : GenWrite(q, n)
  \/ \E q \in QuizIds : GenFail(q)
  \/ \E q \in QuizIds : RN_Load(q)
  \/ \E sheet \in AnswerSheets : RN_InsertAttempt(sheet)
  \/ RN_InsertAnswers
  \/ RN_UpdateAttempt

StatusNext ==
  \/ generate
  \/ \E q \in QuizIds : callBackendGenerate(q)
  \/ \E q \in QuizIds : deleteQuiz(q)
  \/ \E q \in QuizIds : GenAccept(q)
  \/ \E q \in QuizIds, n \in 1..MaxQuestions : GenWrite(q, n)
  \/ \E q \in QuizIds : GenFail(q)
  \/ handleCreate
  \/ handleGenerate
  \/ SumAccept
  \/ \E ty \in SummaryTypes, st \in {"ready", "failed"} : SumFinish(ty, st)

(***************************************************************************)
(* usePolling(fn, opts) (hooks/usePolling.ts) with the default options     *)
(* refetchOnFocus and backoffOnError: the refs timerRef (0 is null, else   *)
(* the period of the interval that is set), currentIntervalRef and         *)
(* runningRef, the option enabled as the last effect saw it,               *)
(* document.hidden, the invocations of fn that have not settled, and the   *)
(* calls of tick: all of them, and those that returned at the test of      *)
(* runningRef.                                                             *)
(***************************************************************************)
\* the calls of tick in a run; the options intervalMs and maxIntervalMs, small values
\* that leave room for two doublings of the period
MaxTicks == 5
IntervalMs == 1
MaxIntervalMs == 4

HookInit == [runningRef |-> FALSE, timerRef |-> 0, currentIntervalRef |-> IntervalMs,
             enabled |-> FALSE, hidden |-> FALSE, pending |-> 0, ticks |-> 0,
             skipped |-> 0]

\* (a tick that tests document.hidden only)
TickReturns_hiddenOnly(hk) == hk.hidden

\* if (runningRef.current) return; if (document.hidden) return;
TickReturns(hk) == hk.runningRef \/ hk.hidden

\* tick() up to its await: the returns, or runningRef.current = true and fn()
tick(hk) ==
  LET t == [hk EXCEPT !.ticks = @ + 1]
  IN IF TickReturns(hk)
       THEN [t EXCEPT !.skipped = IF hk.runningRef THEN @ + 1 ELSE @]
       ELSE [t EXCEPT !.runningRef = TRUE, !.pending = @ + 1]

HookUnchanged ==
  /\ UNCHANGED <<fileVars, quizVars>>
  /\ UNCHANGED <<topics, categories, nextTopic, nextCat, sess, last_used_at>>

\* the effect of the polling lifecycle, run on mount and when enabled, intervalMs or
\* tick change: clearTimer(); when enabled, the interval is set and tick() is called
HK_Effect(en) ==
  /\ hook.ticks < MaxTicks
  /\ LET c == [hook EXCEPT !.timerRef = 0, !.enabled = en]
     IN hook' = IF ~en \/ IntervalMs = 0
                  THEN c
                  ELSE tick([c EXCEPT !.currentIntervalRef = IntervalMs,
                                      !.timerRef = IntervalMs])
  /\ HookUnchanged

\* the interval fires: tick()
HK_Interval ==
  /\ hook.ticks < MaxTicks
  /\ hook.timerRef # 0
  /\ hook' = tick(hook)
  /\ HookUnchanged

\* window "focus": onFocus = () => void tick()
HK_Focus ==
  /\ hook.ticks < MaxTicks
  /\ hook' = tick(hook)
  /\ HookUnchanged

\* document "visibilitychange" (document.hidden has changed): onFocus
HK_Visibility ==
  /\ hook.ticks < MaxTicks
  /\ hook' = tick([hook EXCEPT !.hidden = ~@])
  /\ HookUnchanged

\* the promise of fn() settles: the rest of tick (try, catch, finally)
HK_Settle(ok) ==
  /\ hook.pending > 0
  /\ LET ms == IF ok THEN IntervalMs
               ELSE Min(hook.currentIntervalRef * 2, MaxIntervalMs)
     IN hook' = [hook EXCEPT !.pending = @ - 1,
                             !.currentIntervalRef = ms,
                             !.runningRef = FALSE,
                             !.timerRef = IF @ # 0 THEN ms ELSE 0]
  /\ HookUnchanged

HookNext ==
  \/ \E en \in BOOLEAN : HK_Effect(en)
  \/ HK_Interval
  \/ HK_Focus
  \/ HK_Visibility
  \/ \E ok \in BOOLEAN : HK_Settle(ok)

(***************************************************************************)
(* Topics and categories: tables topics and categories, the trigger        *)
(* function prune_orphan_category, the create-topic dialog                 *)
(* (CreateTopicDialog.tsx) and the topic settings (save, del).             *)
(*                                                                         *)
(* A statement on topics that fires the trigger runs in two steps: the     *)
(* row change with the trigger's "not exists" query, then the trigger's    *)
(* delete with the commit.  Each query of the trigger function reads what  *)
(* is committed when it runs, plus the changes of its own statement.       *)
(***************************************************************************)
MaxTopics == 3
MaxCats == 2
MaxSessions == 2

Sessions == 1..MaxSessions

\* topics.category_id is null
NoCategory == 0

NoRow == [id |-> 0, category_id |-> NoCategory]
IdleSession == [pc |-> "idle", cat |-> NoCategory, topic |-> 0, op |-> "none",
                old |-> NoRow, new |-> NoRow, prune |-> FALSE]

CatInit ==
  /\ topics = {}
  /\ categories = {}
  /\ nextTopic = 1
  /\ nextCat = 1
  /\ sess = [s \in Sessions |-> IdleSession]
  /\ last_used_at = [t \in Topics |-> 0]
  /\ hook = HookInit

HasTopic(t) == \E r \in topics : r.id = t
TopicRow(t) == CHOOSE r \in topics : r.id = t

\* another session's statement holds the row of topic t
RowLocked(s, t) == \E o \in Sessions \ {s} : sess[o].pc = "trig" /\ sess[o].old.id = t

\* another session's uncommitted update references category c
KeyShared(s, c) ==
  \E o \in Sessions \ {s} :
    sess[o].pc = "trig" /\ sess[o].op = "update" /\ sess[o].new.category_id = c

\* prune_orphan_category, its test: old.category_id is not null and
\* not exists (select 1 from topics t where t.category_id = old.category_id)
prune_test_always(rows, old) == old.category_id # NoCategory

prune_test(rows, old) ==
  /\ old.category_id # NoCategory
  /\ ~\E t \in rows : t.category_id = old.category_id

\* topics.category_id references categories(id) on delete set null
SetNull(rows, c) ==
  {IF t.category_id = c THEN [t EXCEPT !.category_id = NoCategory] ELSE t : t \in rows}

\* the categories a dialog can end up with: none (create only), one of the list, or
\* a new one
CategoryChoices(allowNone) ==
  (IF allowNone THEN {"none"} ELSE {}) \cup {"new"} \cup {"listed"}

\* ensureCategory of CreateTopicDialog: the selected or typed category, inserted
\* into categories when it is new; no category when nothing is typed
CT_EnsureCategory(s, choice, c) ==
  /\ sess[s].pc = "idle"
  /\ nextTopic <= MaxTopics
  /\ \/ /\ choice = "none"
        /\ sess' = [sess EXCEPT ![s] = [IdleSession EXCEPT !.pc = "create"]]
        /\ UNCHANGED <<categories, nextCat>>
     \/ /\ choice = "listed"
        /\ c \in categories
        /\ sess' = [sess EXCEPT ![s] = [IdleSession EXCEPT !.pc = "create", !.cat = c]]
        /\ UNCHANGED <<categories, nextCat>>
     \/ /\ choice = "new"
        /\ nextCat <= MaxCats
        /\ categories' = categories \cup {nextCat}
        /\ nextCat' = nextCat + 1
        /\ sess' = [sess EXCEPT ![s] = [IdleSession EXCEPT !.pc = "create", !.cat = nextCat]]
  /\ UNCHANGED <<topics, nextTopic>>
  /\ UNCHANGED <<fileVars, quizVars, last_used_at, hook>>

\* handleCreate: insert into topics (category_id) values (categoryId)
CT_InsertTopic(s) ==
  /\ sess[s].pc = "create"
  /\ IF sess[s].cat = NoCategory \/ sess[s].cat \in categories
       THEN /\ topics' = topics \cup {[id |-> nextTopic, category_id |-> sess[s].cat]}
            /\ nextTopic' = nextTopic + 1
       ELSE UNCHANGED <<topics, nextTopic>>
  /\ sess' = [sess EXCEPT ![s] = IdleSession]
  /\ UNCHANGED <<categories, nextCat>>
  /\ UNCHANGED <<fileVars, quizVars, last_used_at, hook>>

\* the request after ensureCategory returns an error or is never sent: the catch
\* block reports it; the category inserted before stays
CT_Fail(s) ==
  /\ sess[s].pc \in {"create", "save"}
  /\ sess' = [sess EXCEPT ![s] = IdleSession]
  /\ UNCHANGED <<topics, categories, nextTopic, nextCat>>
  /\ UNCHANGED <<fileVars, quizVars, last_used_at, hook>>

\* ensureCategory of the topic settings: a category is required
TS_EnsureCategory(s, t, choice, c) ==
  /\ sess[s].pc = "idle"
  /\ HasTopic(t)
  /\ \/ /\ choice = "listed"
        /\ c \in categories
        /\ sess' = [sess EXCEPT ![s] =
                      [IdleSession EXCEPT !.pc = "save", !.cat = c, !.topic = t]]
        /\ UNCHANGED <<categories, nextCat>>
     \/ /\ choice = "new"
        /\ nextCat <= MaxCats
        /\ categories' = categories \cup {nextCat}
        /\ nextCat' = nextCat + 1
        /\ sess' = [sess EXCEPT ![s] =
                      [IdleSession EXCEPT !.pc = "save", !.cat = nextCat, !.topic = t]]
  /\ UNCHANGED <<topics, nextTopic>>
  /\ UNCHANGED <<fileVars, quizVars, last_used_at, hook>>

\* the statement of session s changed the row old (to new, or deleted it): the
\* trigger returns at once for a null or unchanged category, else it runs its test
RunTrigger(s, op, old, new) ==
  IF old.category_id = NoCategory \/ (op = "update" /\ new.category_id = old.category_id)
    THEN /\ topics' = IF op = "delete" THEN topics \ {old} ELSE (topics \ {old}) \cup {new}
         /\ sess' = [sess EXCEPT ![s] = IdleSession]
    ELSE /\ sess' = [sess EXCEPT ![s] =
                [IdleSession EXCEPT !.pc = "trig", !.op = op, !.old = old, !.new = new,
                   !.prune = prune_test(IF op = "delete" THEN topics \ {old}
                                        ELSE (topics \ {old}) \cup {new}, old)]]
         /\ UNCHANGED topics

\* save: update topics set category_id = categoryId where id = topic.id
TS_Update(s) ==
  /\ sess[s].pc = "save"
  /\ ~RowLocked(s, sess[s].topic)
  /\ IF HasTopic(sess[s].topic) /\ sess[s].cat \in categories
       THEN RunTrigger(s, "update", TopicRow(sess[s].topic),
                       [TopicRow(sess[s].topic) EXCEPT !.category_id = sess[s].cat])
       ELSE /\ sess' = [sess EXCEPT ![s] = IdleSession]
            /\ UNCHANGED topics
  /\ UNCHANGED <<categories, nextTopic, nextCat>>
  /\ UNCHANGED <<fileVars, quizVars, last_used_at, hook>>


\* the keys that reference topics(id) on delete cascade, and the keys behind them:
\* the summaries, files, documents, chunks and quizzes of topic t go with its row,
\* and with the quizzes their questions, options, attempts and answers
CascadeTopic(t) ==
  /\ topic_files' = {f \in topic_files : f.topic_id # TopicKey(t)}
  /\ documents' = {d \in documents :
                     /\ d.topic_id # TopicKey(t)
                     /\ \E f \in topic_files :
                          f.id = d.topic_file_id /\ f.topic_id # TopicKey(t)}
  /\ chunks' = {c \in chunks :
                  /\ c.topic_id # TopicKey(t)
                  /\ \E d \in documents, f \in topic_files :
                       /\ d.id = c.document_id /\ d.topic_id # TopicKey(t)
                       /\ f.id = d.topic_file_id /\ f.topic_id # TopicKey(t)}
  /\ IF t = PageTopic
       THEN /\ summaries' = [ty \in SummaryTypes |-> "none"]
            /\ quizzes' = {}
            /\ quiz_questions' = {}
            /\ quiz_options' = {}
            /\ quiz_attempts' = {}
            /\ attempt_answers' = {}
       ELSE UNCHANGED <<summaries, quizzes, quiz_questions, quiz_options, quiz_attempts,
                        attempt_answers>>

\* the answers left by the cascade from topic t
AnswersAfterTopic(t) == IF t = PageTopic THEN {} ELSE attempt_answers

\* attempt_answers.selected_option_id is on delete restrict: the check of the key is
\* a trigger queued by the delete of each option, and runs after the cascades queued
\* before it; it refuses the statement when an answer left by them selects a
\* deleted option
\* (the check run before the cascades)
TopicRestrictBlocks_first(t) ==
  /\ t = PageTopic
  /\ \E q \in QuizIds :
       HasQuiz(q) /\ RestrictBlocks(attempt_answers, quiz_options, quiz_questions, q)

TopicRestrictBlocks(t) ==
  /\ t = PageTopic
  /\ \E q \in QuizIds :
       HasQuiz(q) /\ RestrictBlocks(AnswersAfterTopic(t), quiz_options, quiz_questions, q)

\* del, onDeleteForever: delete from topics where id = topic.id
TS_Delete(s, t) ==
  /\ sess[s].pc = "idle"
  /\ HasTopic(t)
  /\ ~RowLocked(s, t)
  /\ IF TopicRestrictBlocks(t)
       THEN /\ sqlstate' = "foreign_key_violation"
            /\ UNCHANGED <<topics, sess, topic_files, documents, chunks, summaries,
                           quizzes, quiz_questions, quiz_options, quiz_attempts,
                           attempt_answers>>
       ELSE /\ sqlstate' = "ok"
            /\ RunTrigger(s, "delete", TopicRow(t), NoRow)
            /\ CascadeTopic(t)
  /\ UNCHANGED <<categories, nextTopic, nextCat>>
  /\ UNCHANGED <<storage, nextFile, nextChunk, ingest, busy, pc, cur, uiFiles, err,
                 faults>>
  /\ UNCHANGED <<nextQuiz, nextQuestion, nextOption, nextAttempt, calls, gen,
                 generations, runner, sumCalls, poll, generating, cards, handlers,
                 last_used_at, hook>>

\* the rest of the trigger and the commit: delete from categories where id =
\* old.category_id when the test found no topic, which sets the category_id of every
\* committed topic of that category to null
TX_Finish(s) ==
  /\ sess[s].pc = "trig"
  /\ LET mine == IF sess[s].op = "delete" THEN topics \ {sess[s].old}
                 ELSE (topics \ {sess[s].old}) \cup {sess[s].new}
         c == sess[s].old.category_id
     IN IF sess[s].prune
          THEN /\ ~KeyShared(s, c)
               /\ categories' = categories \ {c}
               /\ topics' = SetNull(mine, c)
          ELSE /\ topics' = mine
               /\ UNCHANGED categories
  /\ sess' = [sess EXCEPT ![s] = IdleSession]
  /\ UNCHANGED <<nextTopic, nextCat>>
  /\ UNCHANGED <<fileVars, quizVars, last_used_at, hook>>

\* the topic and category steps of the browser sessions SS
CatStep(SS) ==
  \/ \E s \in SS, choice \in CategoryChoices(TRUE), c \in 1..MaxCats :
       CT_EnsureCategory(s, choice, c)
  \/ \E s \in SS : CT_InsertTopic(s)
  \/ \E s \in SS : CT_Fail(s)
  \/ \E s \in SS, t \in 1..MaxTopics, choice \in CategoryChoices(FALSE), c \in 1..MaxCats :
       TS_EnsureCategory(s, t, choice, c)
  \/ \E s \in SS : TS_Update(s)
  \/ \E s \in SS, t \in 1..MaxTopics : TS_Delete(s, t)
  \/ \E s \in SS : TX_Finish(s)

Init == FileInit /\ QuizInit /\ CatInit
vars == <<fileVars, quizVars, catVars>>

SpecHook == Init /\ [][HookNext]_vars

(***************************************************************************)
(* Spec: the life of MaxLifeFiles files in one topic (upload, ingestion,    *)
(* include toggle, deletion, failing requests).                            *)
(* SpecSearch: files of two topics with different embeddings, for the      *)
(* search function.                                                        *)
(***************************************************************************)
Next == FileStep({"t1"}, {<<5, 0>>}, MaxLifeFiles) \/ DeleteStep \/ FaultStep
Spec == Init /\ [][Next]_vars

SearchNext == FileStep(Topics, Embeddings, MaxFiles)
SpecSearch == Init /\ [][SearchNext]_vars
SpecWrite == Init /\ [][WriteNext]_vars
SpecQuiz == Init /\ [][QuizNext]_vars
SpecStatus == Init /\ [][StatusNext]_vars

\* SpecPoll: the quiz list with its polling and the generation worker.  A read of
\* the status returns with a row or an error, and the timer of the wait fires: the
\* steps of pollStatus are weakly fair; nothing is assumed of the worker.
PollStep ==
  \/ \E ok \in BOOLEAN : PS_Read(ok)
  \/ PS_Wait
  \/ PS_Finish

PollNext ==
  \/ generate
  \/ \E q \in QuizIds : callBackendGenerate(q)
  \/ \E q \in QuizIds : deleteQuiz(q)
  \/ \E q \in QuizIds : GenAccept(q)
  \/ \E q \in QuizIds, n \in 1..MaxQuestions : GenWrite(q, n)
  \/ \E q \in QuizIds : GenFail(q)
  \/ \E q \in QuizIds : PS_Start(q)
  \/ \E ok \in BOOLEAN : PS_Read(ok)
  \/ PS_Wait
  \/ PS_Finish
SpecPoll == Init /\ [][PollNext]_vars /\ WF_vars(PollStep)

\* SpecList: the quiz list page (generate, regenerate, the polling of each call, the
\* Hide button, refresh) and the generation worker.
ListNext ==
  \/ \E h \in Handlers : LG_Generate(h)
  \/ \E h \in Handlers, q \in QuizIds : LG_Regenerate(h, q)
  \/ \E h \in Handlers, ok \in BOOLEAN : LG_Response(h, ok)
  \/ \E h \in Handlers, ok \in BOOLEAN : LG_Poll(h, ok)
  \/ \E h \in Handlers : LG_End(h)
  \/ \E h \in Handlers \cup {0} : refresh(h)
  \/ Hide
  \/ \E q \in QuizIds : GenAccept(q)
  \/ \E q \in QuizIds : GenWrite(q, MaxQuestions)
  \/ \E q \in QuizIds : GenFail(q)
SpecList == Init /\ [][ListNext]_vars

\* SpecUse: the statements that write the summaries, the files and the quizzes, in
\* the order of the life of a topic: its summaries are inserted and generated, then
\* a file is uploaded (to the topic or to another one), toggled and deleted, then a
\* quiz is created, generated and deleted.
SummariesSettled ==
  /\ nextQuiz = 1 /\ sumCalls = 0
  /\ \A ty \in SummaryTypes : summaries[ty] \in {"ready", "failed"}
FilesSettled == SummariesSettled /\ pc = "idle" /\ nextFile > 1

UseNext ==
  \/ nextFile = 1 /\ handleCreate
  \/ nextFile = 1 /\ handleGenerate
  \/ nextFile = 1 /\ SumAccept
  \/ \E ty \in SummaryTypes, st \in {"ready", "failed"} : nextFile = 1 /\ SumFinish(ty, st)
  \/ \E list \in Batches, t \in Topics :
       SummariesSettled /\ HF_Start(list, t, MaxLifeFiles)
  \/ SummariesSettled /\ HF_StorageUpload
  \/ SummariesSettled /\ HF_InsertRow
  \/ SummariesSettled /\ HF_IngestAccepted
  \/ SummariesSettled /\ HF_Refresh
  \/ \E f \in FileIds : SummariesSettled /\ TG_FileUpdate(f)
  \/ SummariesSettled /\ TG_SelectDocs
  \/ SummariesSettled /\ TG_ChunkUpdate
  \/ SummariesSettled /\ TG_Refresh
  \/ \E f \in FileIds, nd \in 1..MaxDocsPerFile :
       SummariesSettled /\ IngestPersist(f, nd, <<5, 0>>)
  \/ \E f \in FileIds : SummariesSettled /\ IngestComplete(f)
  \/ \E f \in FileIds : SummariesSettled /\ DEL_SelectDocs(f)
  \/ SummariesSettled /\ DEL_Chunks
  \/ SummariesSettled /\ DEL_Documents
  \/ \E ok \in BOOLEAN : SummariesSettled /\ DEL_Storage(ok)
  \/ SummariesSettled /\ DEL_FileUpdate
  \/ SummariesSettled /\ DEL_Refresh
  \/ FilesSettled /\ generate
  \/ \E q \in QuizIds : callBackendGenerate(q)
  \/ \E q \in QuizIds : GenAccept(q)
  \/ \E q \in QuizIds : GenWrite(q, MaxQuestions)
  \/ \E q \in QuizIds : GenFail(q)
  \/ \E q \in QuizIds : deleteQuiz(q)
SpecUse == Init /\ [][UseNext]_vars

\* SpecScore: quizzes of up to MaxScoreQuestions questions taken to the end.  The score
\* depends on the answers only through the number of right ones, so the sheets
\* submitted are those with every question answered, the first c of them rightly.
MaxScoreQuestions == 10

\* the numbers of questions a job writes in SpecScore: 3 (thirds round down and up),
\* 8 (odd numbers of right answers give exact halves) and MaxScoreQuestions
ScoreLengths == {3, 8, MaxScoreQuestions}

RightChoice(qn) == correctChoiceId(qn)[1]
WrongChoice(qn) == CHOOSE o \in ChoicesOf(qn) : <<o>> # correctChoiceId(qn)
ScoreSheets ==
  {[qn \in runner.questions |->
      IF Cardinality({x \in runner.questions : x <= qn}) <= c
        THEN RightChoice(qn) ELSE WrongChoice(qn)] :
     c \in 0..Cardinality(runner.questions)}

ScoreNext ==
  \/ generate
  \/ \E q \in QuizIds : callBackendGenerate(q)
  \/ \E q \in QuizIds : GenAccept(q)
  \/ \E q \in QuizIds, n \in ScoreLengths : GenWrite(q, n)
  \/ \E q \in QuizIds : RN_Load(q)
  \/ \E sheet \in ScoreSheets : RN_InsertAttempt(sheet)
  \/ RN_InsertAnswers
  \/ RN_UpdateAttempt
SpecScore == Init /\ [][ScoreNext]_vars

\* SpecTopicDelete: one topic is created with its summaries, gets a file and then,
\* from the ingested file, a quiz with attempts, and is deleted at any moment.  The
\* pages and the workers of the topic act while its row exists: once it is deleted
\* their inserts are refused by the keys on topics(id) and their updates match no
\* row.
\* the row of the page's topic exists and no statement is deleting it (a statement
\* that references the row waits for the deleting one)
TopicLive ==
  /\ HasTopic(PageTopic)
  /\ ~\E s \in Sessions :
        sess[s].pc = "trig" /\ sess[s].op = "delete" /\ sess[s].old.id = PageTopic
HasSummaries == TopicLive /\ \A ty \in SummaryTypes : summaries[ty] # "none"
HasContent == HasSummaries /\ pc = "idle" /\ \E f \in FileIds : ingest[f] = "done"

TopicDeleteNext ==
  \/ \E choice \in CategoryChoices(TRUE), c \in 1..MaxCats :
       nextTopic = PageTopic /\ CT_EnsureCategory(1, choice, c)
  \/ CT_InsertTopic(1)
  \/ TopicLive /\ handleCreate
  \/ \E list \in Batches : HasSummaries /\ HF_Start(list, "t1", MaxLifeFiles)
  \/ HasSummaries /\ HF_StorageUpload
  \/ HasSummaries /\ HF_InsertRow
  \/ HasSummaries /\ HF_IngestAccepted
  \/ HasSummaries /\ HF_Refresh
  \/ \E f \in FileIds, nd \in 1..MaxDocsPerFile :
       HasSummaries /\ IngestPersist(f, nd, <<5, 0>>)
  \/ \E f \in FileIds : HasSummaries /\ IngestComplete(f)
  \/ HasContent /\ generate
  \/ \E q \in QuizIds : HasContent /\ callBackendGenerate(q)
  \/ \E q \in QuizIds : HasContent /\ GenAccept(q)
  \/ \E q \in QuizIds, n \in 1..MaxQuestions : HasContent /\ GenWrite(q, n)
  \/ \E q \in QuizIds : HasContent /\ RN_Load(q)
  \/ \E sheet \in AnswerSheets : HasContent /\ RN_InsertAttempt(sheet)
  \/ HasContent /\ RN_InsertAnswers
  \/ HasContent /\ RN_UpdateAttempt
  \/ \E t \in 1..MaxTopics : TS_Delete(1, t)
  \/ TX_Finish(1)
SpecTopicDelete == Init /\ [][TopicDeleteNext]_vars

\* SpecCategory: one browser session creating, recategorising and deleting topics.
\* SpecCategoryRace: the same with MaxSessions sessions at once.
CategoryNext == CatStep({1})
SpecCategory == Init /\ [][CategoryNext]_vars
CategoryRaceNext == CatStep(Sessions)
SpecCategoryRace == Init /\ [][CategoryRaceNext]_vars

(***************************************************************************)
(* Properties of the file life cycle                                       *)
(***************************************************************************)
\* the row of file f was inserted or changed by this step
FileMutated(f) ==
  /\ HasFile(f)'
  /\ (~HasFile(f) \/ FileRow(f)' # FileRow(f))

\* invariant 1 for file f
ActiveMatchesFile(f) ==
  \A c \in ChunksOfFile(f) :
    c.is_active = (FileRow(f).include_in_rag /\ FileRow(f).vector_status = "ingested")

\* C1: after every committed insert or update of a topic_files row (upload, include
\* toggle, ingestion completion, soft delete, in any order) every chunk owned by the
\* file through its documents has is_active = (include_in_rag and vector_status =
\* 'ingested'); and the equality stays in force at all times for a file with no
\* ingestion job between its chunk insert and its status update.
C1_ChunksFollowFile ==
  [][\A f \in FileIds :
       /\ FileMutated(f) => ActiveMatchesFile(f)'
       /\ (HasFile(f)' /\ ingest'[f] # "persisted") => ActiveMatchesFile(f)']_vars

\* C1 witness: ingestion completed on a file that was excluded meanwhile: the chunks,
\* inserted active, were made inactive by the trigger of the status update
C1_Witness ==
  \E f \in FileIds :
    /\ HasFile(f)
    /\ FileRow(f).vector_status = "ingested"
    /\ ~FileRow(f).include_in_rag
    /\ ingest[f] = "done"
    /\ ChunksOfFile(f) # {}
    /\ \A c \in ChunksOfFile(f) : ~c.is_active

\* this step is an include toggle of the ingested file f (not its deletion)
ToggledIngested(f) ==
  /\ HasFile(f) /\ HasFile(f)'
  /\ FileRow(f).vector_status = "ingested"
  /\ FileRow(f)'.include_in_rag # FileRow(f).include_in_rag
  /\ ~FileRow(f)'.deleted_at

\* this step changes is_active of some chunk and writes no topic_files row
DirectChunkWrite ==
  /\ topic_files' = topic_files
  /\ \E c \in chunks : \E c2 \in chunks' : c2.id = c.id /\ c2.is_active # c.is_active

\* C2 (as claimed): toggling include_in_rag of an ingested file leaves its chunks
\* is_active = the new include_in_rag with vector_status still 'ingested', and
\* is_active is written by the file-update trigger only, never directly.
C2_ToggleKeepsIngested ==
  [][/\ \A f \in FileIds :
          ToggledIngested(f) =>
             /\ FileRow(f)'.vector_status = "ingested"
             /\ \A c \in ChunksOfFile(f)' : c.is_active = FileRow(f)'.include_in_rag
     /\ ~DirectChunkWrite]_vars

\* the rows of a table without the column is_active
StripActive(cs) ==
  {[id |-> c.id, document_id |-> c.document_id, topic_id |-> c.topic_id,
    embedding |-> c.embedding] : c \in cs}

\* this step sets include_in_rag of file f to false
IncludeTurnedOff(f) ==
  /\ HasFile(f) /\ HasFile(f)'
  /\ FileRow(f).include_in_rag
  /\ ~FileRow(f)'.include_in_rag

\* C3: a step that sets include_in_rag of a file to false leaves no chunk of the file
\* returned by any search with p_only_active = true, and changes no document and no
\* chunk row other than in is_active; the chunks of a file with no ingestion job
\* between its chunk insert and its status update stay out of the results as long as
\* include_in_rag is false.
C3_ExcludedNotReturned ==
  [][\A f \in FileIds :
       /\ IncludeTurnedOff(f) =>
            /\ ~Retrievable(f)'
            /\ StripActive(chunks') = StripActive(chunks)
            /\ documents' = documents
       /\ (HasFile(f)' /\ ~FileRow(f)'.include_in_rag /\ ingest'[f] # "persisted")
            => ~Retrievable(f)']_vars

\* C3 witness: an ingested file was toggled off (not deleted): its chunk rows are
\* still there, inactive
C3_Witness ==
  \E f \in FileIds :
    /\ HasFile(f)
    /\ ~FileRow(f).include_in_rag
    /\ FileRow(f).vector_status = "excluded"
    /\ ingest[f] = "done"
    /\ Cardinality(ChunksOfFile(f)) = MaxDocsPerFile
    /\ ~Retrievable(f)

\* C4: for every query, every match_count and both values of p_only_active, every
\* possible result of match_documents with p_topic_id = T holds only chunks of topic T.
C4_SearchScopedToTopic ==
  \A q \in Embeddings, k \in 0..MaxK, T \in Topics, oa \in BOOLEAN :
    \A r \in match_documents(q, k, T, oa) :
      \A i \in DOMAIN r : r[i].topic_id = T

\* C4 witness: an active chunk of another topic is strictly closer to the query than
\* every chunk of T, and the search scoped to T returns a row
C4_Witness ==
  \E q \in Embeddings, T \in Topics :
    /\ \E r \in match_documents(q, 1, T, TRUE) : Len(r) = 1
    /\ \E o \in chunks :
         /\ o.topic_id # T /\ o.is_active
         /\ \A c \in chunks :
              c.topic_id = T =>
                CosineDistance(o.embedding, q) < CosineDistance(c.embedding, q)

\* C5 (as claimed): a chunk of a file is returned by a search with p_only_active =
\* true only if the file is included and its vector_status is 'ingested'; in
\* particular never while the file is 'ingesting'.
C5_NotVisibleWhileIngesting ==
  \A f \in FileIds :
    Retrievable(f) =>
      /\ HasFile(f)
      /\ FileRow(f).include_in_rag
      /\ FileRow(f).vector_status = "ingested"

\* C6: in every state reached by generation, regeneration, attempt submission, quiz
\* deletion and quiz-content deletion, every attempt_answers row names a question
\* that exists and belongs to the quiz of the row's attempt.
C6_AnswersInCurrentSet ==
  \A a \in attempt_answers :
    \E x \in quiz_questions, t \in quiz_attempts :
      /\ x.id = a.question_id
      /\ t.id = a.attempt_id
      /\ x.quiz_id = t.quiz_id

\* C6 witness: the quiz was regenerated while the runner held the questions of the
\* first generation; the submission of those answers was refused by the foreign keys
\* and left an attempt without answers
C6_Witness ==
  /\ generations = MaxGenerations
  /\ runner = NoRunner
  /\ sqlstate = "foreign_key_violation"
  /\ \E t \in quiz_attempts :
       /\ HasQuiz(t.quiz_id)
       /\ ~t.submitted
       /\ ~\E a \in attempt_answers : a.attempt_id = t.id

\* the status moves of a generation job
AllowedJobMoves ==
  {<<"pending", "processing">>, <<"processing", "ready">>, <<"pending", "failed">>,
   <<"processing", "failed">>, <<"ready", "processing">>, <<"failed", "processing">>}

CorrectOptions(os, qn) == {o \in os : o.question_id = qn /\ o.is_correct}

\* C8 (as claimed): every question has exactly one option with is_correct = true.
C8_ExactlyOneCorrect ==
  \A x \in quiz_questions : Cardinality(CorrectOptions(quiz_options, x.id)) = 1

\* C9: an insert of a correct option, or an update of an option to correct, for a
\* question that already has another correct option ends with a unique violation
\* and leaves quiz_options as it was.
C9_SecondCorrectRefused ==
  [][\A qn \in 1..MaxWrites :
       /\ (CorrectOptions(quiz_options, qn) # {} /\ InsertOption(qn, TRUE))
            => (sqlstate' = "unique_violation" /\ quiz_options' = quiz_options)
       /\ \A o \in quiz_options :
            (/\ o.question_id = qn
             /\ CorrectOptions(quiz_options, qn) \ {o} # {}
             /\ UpdateOption(o, TRUE))
              => (sqlstate' = "unique_violation" /\ quiz_options' = quiz_options)]_vars

\* C9 witness: a statement was refused by the unique index on a question that has a
\* correct option and another option that is not correct
C9_Witness ==
  /\ sqlstate = "unique_violation"
  /\ \E x \in quiz_questions :
       /\ Cardinality(CorrectOptions(quiz_options, x.id)) = 1
       /\ \E o \in quiz_options : o.question_id = x.id /\ ~o.is_correct

\* the moves of vector_status the life cycle allows
AllowedStatusMoves ==
  {<<"not_ingested", "ingesting">>, <<"ingesting", "ingested">>,
   <<"ingesting", "excluded">>} \cup {<<s, "deleted">> : s \in VectorStatus}

\* C10 (as claimed): vector_status of a file moves only along not_ingested ->
\* ingesting -> ingested or excluded, or to deleted, and becomes 'ingested' only when
\* the ingestion of the file has completed.
C10_StatusMonotonic ==
  [][\A f \in FileIds :
       (HasFile(f) /\ HasFile(f)' /\ FileRow(f)'.vector_status # FileRow(f).vector_status)
         => /\ <<FileRow(f).vector_status, FileRow(f)'.vector_status>> \in AllowedStatusMoves
            /\ (FileRow(f)'.vector_status = "ingested" => ingest'[f] = "done")]_vars

\* C11 (as claimed): once a file is soft-deleted no step changes its vector_status or
\* include_in_rag, and none of its chunks is active or returned by a search.
C11_DeletedIsTerminal ==
  [][\A f \in FileIds :
       (HasFile(f) /\ FileRow(f).deleted_at) =>
          /\ HasFile(f)'
          /\ FileRow(f)'.vector_status = "deleted"
          /\ ~FileRow(f)'.include_in_rag
          /\ \A c \in ChunksOfFile(f)' : ~c.is_active
          /\ ~Retrievable(f)']_vars

\* this step commits the deletion of topic t or a change of its category
TopicLeftCategory(t) ==
  \/ ~HasTopic(t.id)'
  \/ TopicRow(t.id)'.category_id # t.category_id

\* C12: with one session at work, a committed deletion or recategorisation of a
\* topic removes the topic's old category exactly when no other topic references it,
\* touches no other category and no other topic, and a topic without a category
\* prunes nothing.
C12_PruneWhenLastReference ==
  [][\A t \in topics :
       TopicLeftCategory(t) =>
          /\ categories' \ {t.category_id} = categories \ {t.category_id}
          /\ \A u \in topics : u.id # t.id => u \in topics'
          /\ t.category_id # NoCategory =>
               ((t.category_id \in categories') <=>
                  (\E u \in topics : u.id # t.id /\ u.category_id = t.category_id))]_vars

\* C12 witness: both categories were created, one was pruned with its last topic, and
\* the other survived the deletion or move of one of its topics
C12_Witness ==
  /\ nextCat = MaxCats + 1
  /\ nextTopic = MaxTopics + 1
  /\ Cardinality(categories) = 1
  /\ Cardinality(topics) = 1
  /\ \A t \in topics : t.category_id \in categories
  /\ \A s \in Sessions : sess[s].pc = "idle"

\* C13 (as claimed): a step deletes a category only if the one committed topic that
\* references it is the topic the deleting statement itself deletes or moves.
C13_NeverPrunedWhileReferenced ==
  [][\A c \in categories :
       c \notin categories' =>
         \A u \in topics :
           u.category_id = c =>
             \E s \in Sessions : sess[s].pc = "trig" /\ sess'[s].pc = "idle" /\ sess[s].old = u]_vars

\* C14 (as claimed): every category row is referenced by at least one topic.
C14_CategoryHasTopic ==
  \A c \in categories : \E t \in topics : t.category_id = c


\* C15: every possible result of a search is in non-decreasing cosine distance to the
\* query, and rows at equal distance come in chunk insertion order (ascending chunk
\* id, the order of the inserts), so that a search has exactly one possible result.
C15_RankedWithStableTies ==
  \A q \in Embeddings, k \in 1..MaxK, T \in Topics \cup {Null}, oa \in BOOLEAN :
    \A r \in match_documents(q, k, T, oa) :
      \A i, j \in DOMAIN r :
        i < j =>
          /\ CosineDistance(r[i].embedding, q) <= CosineDistance(r[j].embedding, q)
          /\ CosineDistance(r[i].embedding, q) = CosineDistance(r[j].embedding, q)
                => r[i].id < r[j].id


\* the right answers of attempt t as the tables hold them: the questions of its quiz
\* whose answer row of t selects the question's correct option
RightAnswers(t) ==
  {x \in quiz_questions :
     /\ x.quiz_id = t.quiz_id
     /\ \E a \in attempt_answers, o \in quiz_options :
          /\ a.attempt_id = t.id /\ a.question_id = x.id
          /\ o.id = a.selected_option_id /\ o.question_id = x.id /\ o.is_correct}

\* s is 100 * c / n rounded to the nearest integer, a half rounded up
IsRounded(s, c, n) == 2 * s * n - n <= 200 * c /\ 200 * c < 2 * s * n + n

\* C16: a step that submits an attempt stores as score_percent the rounded value of
\* 100 * c / n, with n the number of questions of the quiz and c the number of them
\* answered with their correct option; the value lies in 0..100, and 6 right answers
\* of 10 give 60.
C16_ScoreIsRoundedPercent ==
  [][\A t \in quiz_attempts' :
       (t.submitted /\ ~\E u \in quiz_attempts : u.id = t.id /\ u.submitted) =>
          LET n == Cardinality(QuestionIdsOf(quiz_questions', t.quiz_id))
              c == Cardinality(RightAnswers(t)')
          IN /\ n > 0
             /\ t.score_percent \in {<<s>> : s \in 0..100}
             /\ IsRounded(t.score_percent[1], c, n)
             /\ (n = 10 /\ c = 6) => t.score_percent = <<60>>]_vars

\* C16 witness: of two submitted attempts at a quiz of 8 questions, the one with 5
\* right answers (62.5 percent) has score 63 and the one with 3 (37.5 percent) has 38
C16_Witness ==
  \E t, u \in quiz_attempts :
    /\ t.submitted /\ u.submitted
    /\ Cardinality(QuestionIdsOf(quiz_questions, t.quiz_id)) = 8
    /\ Cardinality(RightAnswers(t)) = 5 /\ t.score_percent = <<63>>
    /\ Cardinality(RightAnswers(u)) = 3 /\ u.score_percent = <<38>>


\* C17 (as claimed): a submitted attempt stays in quiz_attempts with the score it was
\* submitted with, whatever happens afterwards, regeneration of its quiz included.
C17_ScoreKeptForever ==
  [][\A t \in quiz_attempts : t.submitted => t \in quiz_attempts']_vars

\* C17 (amended): the score of a submitted attempt never changes while the attempt
\* exists; the attempt is removed only together with every attempt of its quiz, by
\* delete_quiz_content (regeneration) or by the deletion of the quiz.
C17_ScoreFixedWhileRecorded ==
  [][\A t \in quiz_attempts :
       t.submitted =>
         \/ t \in quiz_attempts'
         \/ \A u \in quiz_attempts' : u.quiz_id # t.quiz_id]_vars

\* C17 witness: two submitted attempts at one quiz with different scores: the second
\* submission left the score of the first as it was
C17_Witness ==
  \E t, u \in quiz_attempts :
    /\ t.submitted /\ u.submitted
    /\ t.quiz_id = u.quiz_id /\ t.id < u.id
    /\ t.score_percent # u.score_percent
    /\ runner = NoRunner


\* C18: the step of deleteFile that marks the file deleted leaves its row in
\* topic_files with deleted_at set, vector_status deleted and include_in_rag false,
\* and no document or chunk of the file; and when deleteFile removes the storage
\* object, the documents and chunks of the file are already gone.
C18_DeleteLeavesNoContent ==
  [][/\ (pc = "del_file" /\ pc' = "del_refresh") =>
          /\ HasFile(cur.file)'
          /\ FileRow(cur.file)'.deleted_at
          /\ FileRow(cur.file)'.vector_status = "deleted"
          /\ ~FileRow(cur.file)'.include_in_rag
          /\ DocsOfFile(cur.file)' = {}
          /\ ChunksOfFile(cur.file)' = {}
     /\ (pc = "del_storage" /\ pc' = "del_file") =>
          /\ DocsOfFile(cur.file) = {}
          /\ ChunksOfFile(cur.file) = {}]_vars


\* no row of the tables below topics is left for the page's topic
NoDescendants ==
  /\ \A ty \in SummaryTypes : summaries[ty] = "none"
  /\ {f \in topic_files : f.topic_id = TopicKey(PageTopic)} = {}
  /\ {d \in documents : d.topic_id = TopicKey(PageTopic)} = {}
  /\ {c \in chunks : c.topic_id = TopicKey(PageTopic)} = {}
  /\ quizzes = {} /\ quiz_questions = {} /\ quiz_options = {}
  /\ quiz_attempts = {} /\ attempt_answers = {}

\* C19: a delete of the topic's row always succeeds, whatever rows the topic has
\* (attempts whose answers select options included): the statement is not refused,
\* the row is deleted (at once, or with the commit that follows the category
\* trigger), and no row is left of the topic's summaries, files, documents, chunks,
\* quizzes, questions, options, attempts and answers.
C19_TopicDeleteCascades ==
  [][TS_Delete(1, PageTopic) =>
       /\ sqlstate' = "ok"
       /\ \/ ~HasTopic(PageTopic)'
          \/ sess'[1].pc = "trig" /\ sess'[1].op = "delete" /\ sess'[1].old.id = PageTopic
       /\ NoDescendants']_vars


\* C19 witness: the topic was deleted while the quiz runner had inserted the answers
\* of an attempt (the runner still waits to write the score): the topic, its file
\* with documents and chunks, its summaries and its quiz with the answers are gone
C19_Witness ==
  /\ nextTopic = PageTopic + 1
  /\ ~HasTopic(PageTopic)
  /\ runner.pc = "score"
  /\ generations = 1
  /\ nextAttempt > 1
  /\ nextChunk > 1
  /\ sqlstate = "ok"
  /\ NoDescendants


\* C20: a run of pollStatus always ends.  It makes at most MAX_POLLS reads, one every
\* POLL_INTERVAL_MS; a read that shows ready or failed is its last read; and every
\* run that has started comes to its end, whatever the worker does and whatever the
\* reads return.
C20_PollingTerminates ==
  /\ [](/\ poll.reads <= MAX_POLLS
        /\ poll.i <= MAX_POLLS
        /\ poll.elapsed = poll.i * POLL_INTERVAL_MS
        /\ poll.last \in {"ready", "failed"} => poll.pc = "end")
  /\ [][poll'.reads > poll.reads =>
          /\ poll.reads < MAX_POLLS
          /\ poll.last \notin {"ready", "failed"}
          /\ poll.elapsed = poll.reads * POLL_INTERVAL_MS]_vars
  /\ (poll.pc # "idle") ~> (poll.pc = "idle")

\* C20 witness: a run of pollStatus has ended after MAX_POLLS reads that all
\* returned an error
C20_Witness ==
  /\ poll.pc = "end"
  /\ poll.reads = MAX_POLLS
  /\ poll.allErr

(***************************************************************************)
(* Properties of the quiz list page                                        *)
(***************************************************************************)
\* the page stops following a quiz: the indicator is cleared (Hide, the end of a
\* polling loop, a failed POST) or a call moves past its polling loop
StopsFollowing ==
  \/ generating # 0 /\ generating' = 0
  \/ \E h \in Handlers : handlers[h].pc \in {"poll", "end", "refresh"}
                         /\ handlers'[h] # handlers[h]

\* C21: when polling ends (by its bound of reads or by a final status) or the user
\* hides the dialog, no row of quizzes is written (the status is never set to
\* failed by the page) and the job of the worker is left as it is; every refresh
\* shows each quiz with the status its row has then, so a job that ends later is
\* shown with its own final status.
C21_AbandonLeavesJob ==
  [][/\ StopsFollowing =>
          UNCHANGED <<quizzes, quiz_questions, quiz_options, gen, calls, generations>>
     /\ cards' # cards => cards' = StatusShown(quizzes')]_vars

\* a polling loop has ended by its bound and setGenerating(null) has run, while the
\* job of the quiz is still running
C21_Witness ==
  \E h \in Handlers :
    /\ handlers[h].pc = "refresh"
    /\ handlers[h].i = MAX_POLLS
    /\ generating = 0
    /\ gen[handlers[h].quiz] = "running"
    /\ QuizStatus(handlers[h].quiz) = "processing"

\* C22: whatever the user does (generate, regenerate, Hide, regenerate again), at
\* most one generate request of a quiz is in flight (sent and not yet returned) at
\* any time.
C22_OneRequestInFlight ==
  \A q \in QuizIds : Cardinality(InPost(q)) <= 1

(***************************************************************************)
(* Properties of upload, ingestion failure and deletion failure            *)
(***************************************************************************)
\* C23: a batch with a file over MAX_BYTES (50 MB) is rejected before anything is
\* sent: the call of handleFiles ends at once with the error shown, no storage
\* object, no topic_files row and no ingest request is made, and no file of such a
\* batch is ever in the queue of a running upload.
C23_OversizedBatchRejected ==
  /\ [](pc \in {"hf_upload", "hf_insert", "hf_ingest", "hf_refresh"}
          => ~\E i \in DOMAIN cur.queue : cur.queue[i] > MAX_BYTES)
  /\ [][\A list \in Batches :
          ((\E i \in DOMAIN list : list[i] > MAX_BYTES)
             /\ \E t \in Topics : HF_Start(list, t, MaxFiles))
            => /\ UNCHANGED <<storage, topic_files, ingest, nextFile, documents, chunks>>
               /\ pc' = "idle" /\ ~busy' /\ err']_vars

\* a batch has been rejected (the error is shown) after an earlier upload went
\* through, and nothing of the rejected batch was stored
C23_Witness ==
  /\ err /\ pc = "idle" /\ ~busy
  /\ nextFile = 2 /\ storage = {1}
  /\ {r.id : r \in topic_files} = {1}
  /\ ingest[2] = "none"

\* the ingest request of file f was answered with an error (or never answered) and
\* handleFiles has ended: no ingestion job of f exists
IngestionFailed(f) ==
  /\ HasFile(f)
  /\ ingest[f] = "none"
  /\ cur.file # f

\* C24: a file whose ingestion has failed is in a state of its own: its
\* vector_status is neither 'excluded' nor 'ingesting'.
C24_FailedIsDistinct ==
  \A f \in FileIds :
    IngestionFailed(f) => FileRow(f).vector_status \notin {"excluded", "ingesting"}

(***************************************************************************)
(* Properties of quiz content, attempts and the topic's last use           *)
(***************************************************************************)
\* no question of quiz q, no option of one of the questions qns, no attempt of q and
\* no answer to one of the questions qns is in the tables
NoContentOf(q, qns, qs, os, at, aa) ==
  /\ \A x \in qs : x.quiz_id # q
  /\ \A o \in os : o.question_id \notin qns
  /\ \A a \in at : a.quiz_id # q
  /\ \A a \in aa : a.question_id \notin qns

\* C25: delete_quiz_content(q) is all or nothing: when it returns, no answer to a
\* question of q, no attempt of q, no option of a question of q and no question of
\* q exists, and the rows of other quizzes are as before; when it fails, the four
\* tables are as they were before the call.
C25_DeleteContentAtomic ==
  [][\A q \in QuizIds, ok \in BOOLEAN :
       RPC_delete_quiz_content(q, ok) =>
         IF sqlstate' = "ok"
           THEN /\ NoContentOf(q, QuestionIdsOf(quiz_questions, q), quiz_questions',
                               quiz_options', quiz_attempts', attempt_answers')
                /\ quiz_questions' = {x \in quiz_questions : x.quiz_id # q}
           ELSE UNCHANGED <<quiz_questions, quiz_options, quiz_attempts,
                            attempt_answers>>]_vars

\* delete_quiz_content has returned for a quiz that had questions, options, an
\* attempt and its answers (the runner is between its second and third request)
C25_Witness ==
  /\ sqlstate = "ok"
  /\ quizzes # {}
  /\ generations >= 1
  /\ nextAttempt > 1
  /\ runner.pc = "score"
  /\ quiz_questions = {} /\ quiz_options = {}
  /\ quiz_attempts = {} /\ attempt_answers = {}

\* a statement that inserts or updates a row of topic_files of topic t, or (for the
\* topic of the page) a row of topic_summaries, or that inserts a row of quizzes
BumpingWrite(t) ==
  \/ HF_InsertRow /\ cur.topic = t
  \/ \E f \in FileIds : t \in TopicOfFile(f) /\ (TG_FileUpdate(f) \/ IngestComplete(f))
  \/ t \in TopicOfFile(cur.file) /\ DEL_FileUpdate
  \/ /\ t = TopicKey(PageTopic)
     /\ \/ handleCreate
        \/ SumAccept /\ summaries' # summaries
        \/ \E ty \in SummaryTypes, st \in {"ready", "failed"} : SumFinish(ty, st)
        \/ generate

\* C26: the last_used_at of a topic is set by every insert or update of one of its
\* files or summaries and by the insert of one of its quizzes, and by no other
\* statement on these tables: an update or a delete of a quiz, and the writes to
\* the rows of another topic, leave it as it is.
C26_LastUsedBumps ==
  [][\A t \in Topics :
       /\ BumpingWrite(t) => last_used_at'[t] # last_used_at[t]
       /\ last_used_at'[t] # last_used_at[t] => BumpingWrite(t)
       /\ (\E q \in QuizIds : GenAccept(q) \/ GenWrite(q, MaxQuestions) \/ GenFail(q)
                                \/ deleteQuiz(q))
            => last_used_at'[t] = last_used_at[t]]_vars

\* a file of the other topic was uploaded, ingested and deleted, and a quiz of the
\* topic of the page was created, generated and deleted
C26_Witness ==
  /\ \E r \in topic_files : r.topic_id # TopicKey(PageTopic) /\ r.vector_status = "deleted"
  /\ nextQuiz > 1 /\ quizzes = {} /\ generations = 1
  /\ last_used_at[TopicKey(PageTopic)] # last_used_at["t2"]

\* the answers stored for attempt a
AnswersOf(aa, a) == {r \in aa : r.attempt_id = a}

\* C27: an attempt has submitted_at and score_percent only when an answer with a
\* selected option is stored for every question of its quiz; when the insert of the
\* answers is refused (an unanswered question, a question or option that is gone),
\* the attempt row that submit() has created stays as it is, not submitted, without
\* score and without answers.
C27_SubmittedHasAllAnswers ==
  /\ [](\A a \in quiz_attempts :
          /\ ~a.submitted => a.score_percent = <<>>
          /\ (~a.submitted /\ (a.id # runner.attempt \/ runner.pc # "score"))
               => AnswersOf(attempt_answers, a.id) = {})
  /\ [][/\ \A a \in quiz_attempts, b \in quiz_attempts' :
             (b.id = a.id /\ ~a.submitted /\ b.submitted) =>
               /\ b.score_percent # <<>>
               /\ runner.questions = QuestionIdsOf(quiz_questions, a.quiz_id)
               /\ runner.questions # {}
               /\ \A qn \in runner.questions :
                    \E r \in AnswersOf(attempt_answers, a.id) :
                      r.question_id = qn /\ r.selected_option_id # NoChoice
        /\ (RN_InsertAnswers /\ sqlstate' # "ok") =>
             /\ quiz_attempts' = quiz_attempts
             /\ AnswersOf(attempt_answers', runner.attempt) = {}
             /\ runner'.pc = "closed"
        /\ \A a \in quiz_attempts :
             (~a.submitted /\ a.id # runner.attempt) =>
               /\ \A b \in quiz_attempts' : b.id = a.id => b = a
               /\ AnswersOf(attempt_answers', a.id) = {}]_vars

\* the answers of one attempt were refused and its row is still there, not submitted,
\* without score and answers, after another attempt was submitted
C27_Witness ==
  /\ \E a \in quiz_attempts :
       ~a.submitted /\ a.score_percent = <<>> /\ AnswersOf(attempt_answers, a.id) = {}
  /\ \E b \in quiz_attempts : b.submitted /\ AnswersOf(attempt_answers, b.id) # {}
  /\ runner.pc = "closed"

\* the documents that deleteFile selected and their chunks are deleted
SelectedGone(ds, cs) ==
  /\ cur.ids # {}
  /\ \A d \in ds : d.id \notin cur.ids
  /\ \A c \in cs : c.document_id \notin cur.ids

\* the final row update of deleteFile fails: the row keeps what it had, the
\* documents and chunks of the file are gone
C28_UpdateFailureLeavesRow ==
  [][(DEL_Fail /\ pc = "del_file" /\ cur.ids # {}) =>
       /\ topic_files' = topic_files
       /\ HasFile(cur.file) /\ ~FileRow(cur.file).deleted_at
       /\ SelectedGone(documents', chunks')]_vars

\* C28: deleteFile is not rolled back: when the removal of the storage object or the
\* final row update fails after the chunks and documents of the file were deleted,
\* the delete ends there with the file row as it was (not soft-deleted, its
\* vector_status and include_in_rag kept) and without documents and chunks.
C28_DeleteNotRolledBack ==
  [][/\ (DEL_Fail /\ pc = "del_file" /\ cur.ids # {}) =>
          /\ topic_files' = topic_files
          /\ HasFile(cur.file) /\ ~FileRow(cur.file).deleted_at
          /\ SelectedGone(documents', chunks')
     /\ (/\ pc = "del_storage" /\ cur.ids # {}
         /\ cur.file \in storage /\ cur.file \in storage') =>
          /\ pc' = "idle" /\ err'
          /\ topic_files' = topic_files
          /\ HasFile(cur.file) /\ ~FileRow(cur.file).deleted_at
          /\ SelectedGone(documents', chunks')]_vars

\* C29: generating holds one quiz id or nothing, and every polling loop that ends
\* sets it to nothing, whatever quiz it names at that moment: also the quiz of a
\* later call whose job is still pending or processing.
C29_ClearedAtLoopEnd ==
  /\ [](generating \in QuizIds \cup {0})
  /\ [][\A h \in Handlers :
          (handlers[h].pc = "end" /\ handlers'[h].pc = "refresh") => generating' = 0]_vars

\* the loop of the first call has ended and the indicator is off, while the second
\* call, started after Hide for another quiz, still waits for a job that has not ended
C29_Witness ==
  /\ generating = 0
  /\ handlers[1].pc = "refresh"
  /\ handlers[2].pc \in {"post", "poll"}
  /\ handlers[2].quiz # handlers[1].quiz
  /\ HasQuiz(handlers[2].quiz)
  /\ QuizStatus(handlers[2].quiz) \in {"pending", "processing"}

\* C30: at most one invocation of the polled function has not settled, whatever the
\* order of interval ticks, effect runs and focus and visibility events, and no tick
\* that arrives while an invocation is pending calls the function.
C30_OneInFlight ==
  /\ [](hook.pending <= 1 /\ (hook.runningRef <=> hook.pending = 1))
  /\ [][hook.pending > 0 => hook'.pending <= hook.pending]_vars

\* a tick has returned at the test of runningRef and the invocation it found is
\* still pending, with the interval set and the page visible
C30_Witness ==
  /\ hook.pending = 1
  /\ hook.skipped >= 1
  /\ hook.timerRef # 0
  /\ ~hook.hidden
====
